---- MODULE Spec2Model ----
(***************************************************************************)
(* A model of the tokenizer (src/src/lexer.c), the AST constructors and    *)
(* destructor (src/src/ast.c) and the recursive-descent parser             *)
(* (src/src/parser.c).                                                     *)
(*                                                                         *)
(* Characters are one-character strings; NUL is the C string terminator    *)
(* and FAULT stands for a byte of unmapped memory.  The tokenizer is a     *)
(* sequential function: an operator over a record that holds the fields of *)
(* struct lexer, and an action applies a whole call.  A call of parse is   *)
(* run as a machine with the stack of the productions entered; a step runs *)
(* the production on top up to its next call of a production or to its     *)
(* return.                                                                 *)
(***************************************************************************)
EXTENDS Integers, Sequences, FiniteSets, TLC

VARIABLES source, image, l, token, start, result, machine

vars == <<source, image, l, token, start, result, machine>>

(***************************************************************************)
(* Characters and the <ctype.h> classes used by the tokenizer.             *)
(***************************************************************************)
NUL == "NUL"
FAULT == "FAULT"

Lower == {"a","b","c","d","e","f","g","h","i","j","k","l","m","n","o","p",
          "q","r","s","t","u","v","w","x","y","z"}
Upper == {"A","B","C","D","E","F","G","H","I","J","K","L","M","N","O","P",
          "Q","R","S","T","U","V","W","X","Y","Z"}
Digits == {"0","1","2","3","4","5","6","7","8","9"}
Spaces == {" ", "\t", "\n", "\r", "\f", "VT"}
PunctChars == {"(", ")", "{", "}", "[", "]", ".", ",", ":", "?",
               "+", "-", "*", "/", "%", "=", "<", ">", "!"}

LexemeMax0 == 128

(***************************************************************************)
(* struct lexer.  lexeme holds the bytes written to the lexeme buffer;     *)
(* the token text is its first lexeme_len bytes.  lexeme_len is a size_t:  *)
(* a value below zero stands for that value modulo 2^64, which is above    *)
(* every buffer size.  lexeme_null: the buffer pointer is NULL, a write    *)
(* through it ends the process.  after is the memory                       *)
(* that follows the input's terminating NUL, rodata the bytes found behind *)
(* a keyword's terminating NUL, nalloc/fail_at the allocator's behaviour:  *)
(* the fail_at-th allocation call of the run returns NULL.                 *)
(***************************************************************************)
peek(lx) ==
    IF lx.input_pos < lx.input_len THEN lx.input[lx.input_pos + 1]
    ELSE IF lx.input_pos = lx.input_len THEN NUL
    ELSE IF lx.input_pos - lx.input_len <= Len(lx.after)
         THEN lx.after[lx.input_pos - lx.input_len]
         ELSE FAULT

\* A read of unmapped memory ends the process.
touch(lx) == IF peek(lx) = FAULT THEN [lx EXCEPT !.segv = TRUE] ELSE lx

advance(lx) == [lx EXCEPT !.input_pos = @ + 1]

\* malloc/realloc: the call counted nalloc + 1 fails iff it is fail_at.
alloc_ok(lx) == lx.nalloc + 1 # lx.fail_at
alloc_count(lx) == [lx EXCEPT !.nalloc = @ + 1]

\* a >= b for size_t a (see above) and a buffer size b.
size_ge(a, b) == a < 0 \/ a >= b

grow_ok(lx) ==
    /\ ~lx.error
    /\ (size_ge(lx.lexeme_len, lx.lexeme_max) => alloc_ok(lx))

grow(lx) ==
    IF lx.error THEN lx
    ELSE IF size_ge(lx.lexeme_len, lx.lexeme_max)
         THEN [alloc_count(lx) EXCEPT !.lexeme_max = @ * 2,
                                      !.error = ~alloc_ok(lx),
                                      !.lexeme_null = @ /\ ~alloc_ok(lx)]
         ELSE lx

\* A store into the lexeme buffer.
store(lx) == IF lx.lexeme_null THEN [lx EXCEPT !.segv = TRUE] ELSE lx

\* l->lexeme[l->lexeme_len++] = peek(l), in the buffer g that grow left.
append_store(g) ==
    [g EXCEPT !.lexeme = SubSeq(@, 1, g.lexeme_len) \o <<peek(g)>>,
              !.lexeme_len = @ + 1]

append(lx) ==
    IF grow_ok(lx)
    THEN advance(append_store(store(touch(grow(lx)))))
    ELSE advance(grow(lx))

\* advance(l), k times.
peek_at(lx, k) == [lx EXCEPT !.input_pos = @ + k]

is_end(lx) == lx.input_pos = lx.input_len
is_punct(lx) == peek(lx) \in PunctChars
is_space(lx) == peek(lx) \in Spaces
is_symbol(lx) == peek(lx) \in Lower \cup Upper \/ peek(lx) = "_"
is_bdigit(lx) == peek(lx) \in {"0", "1"}
is_odigit(lx) == peek(lx) \in {"0","1","2","3","4","5","6","7"}
is_xdigit(lx) == peek(lx) \in Digits \cup {"a","b","c","d","e","f"}
                                     \cup {"A","B","C","D","E","F"}
is_digit(lx) == peek(lx) \in Digits
is_quote(lx) == peek(lx) = "'"

\* The conditions of the while loops.
is_symbol_or_digit(lx) == is_symbol(lx) \/ is_digit(lx)

not_end_not_quote(lx) == ~is_end(lx) /\ ~is_quote(lx) /\ peek(lx) # FAULT

not_end_space(lx) == ~is_end(lx) /\ is_space(lx)

not_end_not_newline(lx) == ~is_end(lx) /\ peek(lx) # "\n" /\ peek(lx) # FAULT

\* Mutation of cond: the base marker does not select the digit class.
cond_decimal(tok, lx) == is_digit(lx)

cond(tok, lx) ==
    CASE tok = "TOKEN_BIN_NUMBER" -> is_bdigit(lx)
      [] tok = "TOKEN_OCT_NUMBER" -> is_odigit(lx)
      [] tok = "TOKEN_HEX_NUMBER" -> is_xdigit(lx)
      [] OTHER                    -> is_digit(lx)

\* The condition of each while loop of the tokenizer, by the loop's name.
loop_cond(loop, lx) ==
    CASE loop = "symbol"  -> is_symbol_or_digit(lx)
      [] loop = "string"  -> not_end_not_quote(lx)
      [] loop = "space"   -> not_end_space(lx)
      [] loop = "comment" -> not_end_not_newline(lx)
      [] OTHER            -> cond(loop, lx)

\* while (P(l)) step(l): P reads only the cursor and the character under
\* it and a step moves the cursor by one, so the loop runs run(lx, loop)
\* times, the length of the run of positions satisfying P from the cursor.
run(lx, loop) ==
    CHOOSE n \in 0..(lx.input_len + Len(lx.after) + 1) :
        /\ ~loop_cond(loop, peek_at(lx, n))
        /\ \A k \in 0..(n - 1) : loop_cond(loop, peek_at(lx, k))

\* The k characters under and after the cursor.
peek_seq(lx, k) == [i \in 1..k |-> peek(peek_at(lx, i - 1))]

\* Free bytes of the lexeme buffer: appends that need no realloc.
room(lx) ==
    IF size_ge(lx.lexeme_len, lx.lexeme_max) THEN 0
    ELSE lx.lexeme_max - lx.lexeme_len

Min(a, b) == IF a < b THEN a ELSE b

\* n times append(l) over characters that are mapped.  With error set an
\* append only advances; while the buffer has room it stores and advances;
\* the append that finds the buffer full is the one that calls realloc.
\* k times append(l) in a buffer with room for k characters.
append_k(lx, k) ==
    [lx EXCEPT !.lexeme = SubSeq(@, 1, lx.lexeme_len) \o peek_seq(lx, k),
               !.lexeme_len = @ + k,
               !.input_pos = @ + k]

RECURSIVE append_n(_, _)
append_n(lx, n) ==
    IF n = 0 \/ lx.segv THEN lx
    ELSE IF lx.error THEN peek_at(lx, n)
    ELSE IF room(lx) > 0 /\ ~lx.lexeme_null
         THEN append_n(append_k(lx, Min(n, room(lx))), n - Min(n, room(lx)))
         ELSE append_n(append(lx), n - 1)

Res(lx, ok, tok) == [l |-> lx, success |-> ok, token |-> tok]

fail(lx) == Res(lx, FALSE, "TOKEN_INVALID")

\* l->lexeme[l->lexeme_len] = '\0', in the buffer g that grow left.
finish_store(g) == [g EXCEPT !.lexeme = SubSeq(@, 1, g.lexeme_len)]

finish(lx, tok) ==
    IF grow_ok(lx)
    THEN Res(finish_store(store(grow(lx))), TRUE, tok)
    ELSE fail(grow(lx))

\* Mutation of is_boundary: every character ends a word.
is_boundary_any(lx) == TRUE

\* is_end(l) || is_space(l) || is_punct(l)
is_boundary(lx) == is_end(lx) \/ is_space(lx) \/ is_punct(lx)

match_ok(lx, c) == peek(lx) = c
match(lx, c) == IF peek(lx) = c THEN advance(lx) ELSE touch(lx)

accept_ok(lx, c) == peek(lx) = c
accept(lx, c) == IF peek(lx) = c THEN append(lx) ELSE touch(lx)

(***************************************************************************)
(* symbol(): the keyword table and the keyword/identifier scan.            *)
(***************************************************************************)
keywords == <<
    [prefix |-> FALSE, name |-> <<"a","n","d">>, token |-> "TOKEN_AND"],
    [prefix |-> FALSE, name |-> <<"b","r","e","a","k">>, token |-> "TOKEN_BREAK"],
    [prefix |-> FALSE, name |-> <<"c","o","n","t","i","n","u","e">>, token |-> "TOKEN_CONTINUE"],
    [prefix |-> TRUE,  name |-> <<"e","l","i","f">>, token |-> "TOKEN_ELIF"],
    [prefix |-> TRUE,  name |-> <<"e","l","s","e">>, token |-> "TOKEN_ELSE"],
    [prefix |-> TRUE,  name |-> <<"e","n","d","f","o","r","e","a","c","h">>, token |-> "TOKEN_ENDFOREACH"],
    [prefix |-> FALSE, name |-> <<"e","n","d","i","f">>, token |-> "TOKEN_ENDIF"],
    [prefix |-> TRUE,  name |-> <<"f","a","l","s","e">>, token |-> "TOKEN_FALSE"],
    [prefix |-> FALSE, name |-> <<"f","o","r","e","a","c","h">>, token |-> "TOKEN_FOREACH"],
    [prefix |-> TRUE,  name |-> <<"i","f">>, token |-> "TOKEN_IF"],
    [prefix |-> FALSE, name |-> <<"i","n">>, token |-> "TOKEN_IN"],
    [prefix |-> FALSE, name |-> <<"n","o","t">>, token |-> "TOKEN_NOT"],
    [prefix |-> FALSE, name |-> <<"o","r">>, token |-> "TOKEN_OR"],
    [prefix |-> FALSE, name |-> <<"t","r","u","e">>, token |-> "TOKEN_TRUE"] >>

\* keywords[i].name[j], i counted from 1 and j from 0 as in the source; a
\* read behind the terminating NUL yields whatever bytes the image holds
\* there (rodata, followed by zero bytes).
kw_char(lx, i, j) ==
    IF j < Len(keywords[i].name) THEN keywords[i].name[j + 1]
    ELSE IF j = Len(keywords[i].name) THEN NUL
    ELSE IF j - Len(keywords[i].name) <= Len(lx.rodata)
         THEN lx.rodata[j - Len(keywords[i].name)]
         ELSE NUL

\* while (is_symbol(l) || is_digit(l)) append(l);
ident_loop(lx) == touch(append_n(lx, run(lx, "symbol")))

\* The loop of symbol().  Each turn reads keywords[i].name[j]; kw_over
\* records that a turn has read behind the terminating NUL of the name.
RECURSIVE symbol_scan(_, _, _)
symbol_scan(l0, i, j) ==
    IF i > Len(keywords) THEN finish(ident_loop(l0), "TOKEN_IDENTIFIER")
    ELSE LET lx == [l0 EXCEPT !.kw_over = @ \/ j > Len(keywords[i].name)]
         IN  IF kw_char(lx, i, j) = NUL
             THEN IF is_boundary(lx)
                  THEN finish(lx, keywords[i].token)
                  ELSE finish(ident_loop(lx), "TOKEN_IDENTIFIER")
             ELSE IF accept_ok(lx, kw_char(lx, i, j))
                  THEN symbol_scan(accept(lx, kw_char(lx, i, j)), i, j + 1)
                  ELSE symbol_scan(lx, i + 1,
                                   IF keywords[i].prefix THEN j ELSE 0)

symbol(lx) == symbol_scan(lx, 1, 0)

(***************************************************************************)
(* multiline_string() and string().                                        *)
(***************************************************************************)
\* The loop condition read the character under the cursor unless the
\* cursor was at the end of the input.
loop_exit(lx) == IF is_end(lx) THEN lx ELSE touch(lx)

\* Mutation of not_quote_loop: the characters are skipped, not appended.
not_quote_loop_skip(lx) == loop_exit(peek_at(lx, run(lx, "string")))

\* while (!is_end(l) && !is_quote(l)) append(l);
not_quote_loop(lx) == loop_exit(append_n(lx, run(lx, "string")))

RECURSIVE quote_loop(_, _)
quote_loop(lx, i) ==
    IF i < 3 /\ is_quote(lx) THEN quote_loop(append(lx), i + 1)
    ELSE [l |-> lx, i |-> i]

\* l->lexeme_len -= 3
drop_quotes(lx) == [lx EXCEPT !.lexeme_len = @ - 3]

\* One turn of the outer loop of multiline_string: multiline_turn is the
\* part after the two inner loops, which left the tokenizer q.l and i = q.i.
RECURSIVE multiline_string(_)
multiline_turn(q) ==
    IF q.l.segv THEN fail(q.l)
    ELSE IF q.i = 3
         THEN finish(drop_quotes(q.l), "TOKEN_MULTILINE_STRING")
         ELSE multiline_string(append(q.l))

multiline_string(lx) ==
    IF lx.segv THEN fail(lx)
    ELSE IF is_end(lx) THEN fail(lx)
    ELSE multiline_turn(quote_loop(not_quote_loop(lx), 0))

\* string() after two quotes: if (match(l, '\'')) return multiline_string(l);
string_two(lx) ==
    IF match_ok(lx, "'")
    THEN multiline_string(match(lx, "'"))
    ELSE finish(match(lx, "'"), "TOKEN_STRING")

\* string() after the content loop: if (!match(l, '\'')) return fail();
string_close(lx) ==
    IF ~match_ok(lx, "'")
    THEN fail(match(lx, "'"))
    ELSE finish(match(lx, "'"), "TOKEN_STRING")

\* string() after the opening quote.
string_one(lx) ==
    IF match_ok(lx, "'")
    THEN string_two(match(lx, "'"))
    ELSE string_close(not_quote_loop(match(lx, "'")))

string(lx) == string_one(match(lx, "'"))

(***************************************************************************)
(* number().                                                               *)
(***************************************************************************)
number_token(c) ==
    CASE c = "b" -> "TOKEN_BIN_NUMBER"
      [] c = "o" -> "TOKEN_OCT_NUMBER"
      [] c = "x" -> "TOKEN_HEX_NUMBER"
      [] OTHER   -> "TOKEN_DEC_NUMBER"

\* while (cond(l)) append(l);
digit_loop(tok, lx) == touch(append_n(lx, run(lx, tok)))

\* number() after the digit loop.
number_end(tok, lx) ==
    IF is_boundary(lx) THEN finish(lx, tok) ELSE fail(lx)

number_tail(tok, lx) == number_end(tok, digit_loop(tok, lx))

\* l->lexeme_len--
drop_zero(lx) == [lx EXCEPT !.lexeme_len = @ - 1]

\* number() after advance(l) over the base marker.
number_marked(tok, lx) ==
    IF ~cond(tok, lx) THEN fail(touch(lx))
    ELSE number_tail(tok, drop_zero(lx))

\* number() after accept(l, '0') succeeded.
number_zero(lx) ==
    IF number_token(peek(lx)) # "TOKEN_DEC_NUMBER"
    THEN number_marked(number_token(peek(lx)), advance(lx))
    ELSE number_tail("TOKEN_DEC_NUMBER", touch(lx))

number(lx) ==
    IF accept_ok(lx, "0")
    THEN number_zero(accept(lx, "0"))
    ELSE number_tail("TOKEN_DEC_NUMBER", lx)

(***************************************************************************)
(* maybe_eq(), append_finish(), do_lex(), lexer_init(), lex().             *)
(***************************************************************************)
\* maybe_eq() after append(l).
maybe_eq_second(lx, if_eq, if_not_eq) ==
    finish(accept(lx, "="), IF accept_ok(lx, "=") THEN if_eq ELSE if_not_eq)

maybe_eq(lx, if_eq, if_not_eq) == maybe_eq_second(append(lx), if_eq, if_not_eq)

append_finish(lx, tok) == finish(append(lx), tok)

\* while (!is_end(l) && is_space(l)) advance(l);
space_loop(lx) == loop_exit(peek_at(lx, run(lx, "space")))

\* while (!is_end(l) && peek(l) != '\n') advance(l);
comment_loop(lx) == loop_exit(peek_at(lx, run(lx, "comment")))

single_tokens == [c \in {"(", ")", "{", "}", "[", "]", ".", ",", ":", "?"} |->
    CASE c = "(" -> "TOKEN_L_PAREN"
      [] c = ")" -> "TOKEN_R_PAREN"
      [] c = "{" -> "TOKEN_L_BRACE"
      [] c = "}" -> "TOKEN_R_BRACE"
      [] c = "[" -> "TOKEN_L_BRACKET"
      [] c = "]" -> "TOKEN_R_BRACKET"
      [] c = "." -> "TOKEN_DOT"
      [] c = "," -> "TOKEN_COMMA"
      [] c = ":" -> "TOKEN_COLON"
      [] c = "?" -> "TOKEN_TERNARY"]

eq_tokens == [c \in {"+", "-", "*", "/", "%", "<", ">", "=", "!"} |->
    CASE c = "+" -> <<"TOKEN_ADD_ASSIGN", "TOKEN_PLUS">>
      [] c = "-" -> <<"TOKEN_SUB_ASSIGN", "TOKEN_MINUS">>
      [] c = "*" -> <<"TOKEN_MUL_ASSIGN", "TOKEN_STAR">>
      [] c = "/" -> <<"TOKEN_DIV_ASSIGN", "TOKEN_SLASH">>
      [] c = "%" -> <<"TOKEN_MOD_ASSIGN", "TOKEN_PERCENT">>
      [] c = "<" -> <<"TOKEN_LE", "TOKEN_LT">>
      [] c = ">" -> <<"TOKEN_GE", "TOKEN_GT">>
      [] c = "=" -> <<"TOKEN_EQ", "TOKEN_ASSIGN">>
      [] c = "!" -> <<"TOKEN_NE", "TOKEN_INVALID">>]

\* The switch of do_lex on the first character of the token.
dispatch_on(lx, c) ==
    IF is_symbol(lx) THEN symbol(lx)
    ELSE IF c \in DOMAIN single_tokens THEN append_finish(lx, single_tokens[c])
    ELSE IF c \in DOMAIN eq_tokens THEN maybe_eq(lx, eq_tokens[c][1], eq_tokens[c][2])
    ELSE IF c = "'" THEN string(lx)
    ELSE IF c \in Digits THEN number(lx)
    ELSE fail(touch(lx))

dispatch(lx) == dispatch_on(lx, peek(lx))

\* One turn of the for (;;) loop of do_lex: skip_turn is the part after
\* the whitespace loop.
RECURSIVE skip_loop(_)
skip_turn(lx) ==
    IF lx.segv THEN fail(lx)
    ELSE IF is_end(lx) THEN finish(lx, "TOKEN_END")
    ELSE IF match_ok(lx, "\\") THEN skip_loop(match(lx, "\\"))
    ELSE IF peek(lx) # "#" THEN dispatch(lx)
    ELSE skip_loop(comment_loop(lx))

skip_loop(lx) == skip_turn(space_loop(lx))

do_lex(lx) == skip_loop([lx EXCEPT !.lexeme_len = 0])

\* lexer_init: memset, then the input and a lexeme buffer of 128 bytes.
\* A failed mem_alloc leaves lexeme NULL.
lexer_init(input, after, rodata, nalloc, fail_at) ==
    [error |-> FALSE, input |-> input, input_pos |-> 0,
     input_len |-> Len(input), lexeme_len |-> 0, lexeme_max |-> LexemeMax0,
     lexeme |-> <<>>, lexeme_null |-> (nalloc + 1 = fail_at),
     after |-> after, rodata |-> rodata, segv |-> FALSE, kw_over |-> FALSE,
     nalloc |-> nalloc + 1, fail_at |-> fail_at]

\* lex: result of the call and the tokenizer after it.
lex_return(res) ==
    [l |-> res.l,
     token |-> IF res.l.segv THEN "SIGSEGV"
               ELSE IF res.success
                    THEN (IF res.l.error THEN "TOKEN_ERROR" ELSE res.token)
                    ELSE "TOKEN_ERROR"]

lex(lx) == lex_return(do_lex(lx))

lexeme_text(lx) == SubSeq(lx.lexeme, 1, lx.lexeme_len)

(***************************************************************************)
(* Memory, struct string and the AST (common.c, ast.h, ast.c, list.h).     *)
(*                                                                         *)
(* A parse call is run as a machine m: p is the struct parser, heap the    *)
(* cells that mem_alloc has returned (a pointer is an index into heap,     *)
(* NULL is 0), stack the activation records of the productions that have   *)
(* been entered, res the struct result that the last call returned, ret,   *)
(* ptr and str the values returned by the last accept_any, allocation and  *)
(* string duplication, signal the signal that ended the process, and nomem *)
(* the type of the cell that mem_alloc could not allocate; lexed counts    *)
(* the calls of lex and accepted lists the tokens that accept_any matched, *)
(* each with the lexeme it had then.  A cell counts                        *)
(* how often it was freed and, for a node, how often its list_node was     *)
(* linked into a list.  Texts are strings.                                 *)
(***************************************************************************)
NULL == 0

NULL_STRING == [valid |-> FALSE, raw |-> FALSE, data |-> NULL, buffer |-> ""]

string_from_buf(s) == [valid |-> TRUE, raw |-> TRUE, data |-> NULL, buffer |-> s]

\* The characters of a text as one string.
RECURSIVE c_str(_)
c_str(s) ==
    IF Len(s) = 0 THEN ""
    ELSE IF Len(s) = 1 THEN s[1]
    ELSE c_str(SubSeq(s, 1, Len(s) \div 2)) \o
         c_str(SubSeq(s, Len(s) \div 2 + 1, Len(s)))

\* abort() or a fault: the first signal ends the process.
raise(m, sig) == IF m.signal = "NONE" THEN [m EXCEPT !.signal = sig] ELSE m

\* malloc + memset: the new cell, or NULL when the allocator fails.
mem_alloc(m, cell) ==
    IF alloc_ok(m.p.lexer)
    THEN [m EXCEPT !.p.lexer = alloc_count(@),
                   !.heap = Append(@, cell),
                   !.ptr = Len(m.heap) + 1]
    ELSE [m EXCEPT !.p.lexer = alloc_count(@), !.ptr = NULL,
                   !.nomem = cell.type]

mem_free(m, ptr) == [m EXCEPT !.heap[ptr].freed = @ + 1]

\* string_alloc + memcpy: str is the copy, NULL_STRING when the allocation
\* failed.
string_dup_n(m, text) ==
    LET copy(a) ==
            [a EXCEPT !.str = IF a.ptr = NULL THEN NULL_STRING
                              ELSE [valid |-> TRUE, raw |-> FALSE,
                                    data |-> a.ptr, buffer |-> ""]]
    IN  copy(mem_alloc(m, [type |-> "string_data", buffer |-> text,
                             freed |-> 0]))

\* strlen(s) is the length of the text: a text holds no NUL.
string_dup(m, text) == string_dup_n(m, text)

string_free(m, s) ==
    IF ~s.raw /\ s.data # NULL THEN mem_free(m, s.data) ELSE m

\* string_text/string_buffer of a valid string.
string_text(m, s) == IF s.raw THEN s.buffer ELSE m.heap[s.data].buffer

\* Mutation of list_append: data becomes the first node of the list.
list_append_first(m, owner, list, data) ==
    IF data = NULL \/ m.heap[data].node # 0 THEN raise(m, "SIGABRT")
    ELSE [m EXCEPT !.heap[owner][list] = <<data>> \o @,
                   !.heap[data].node = @ + 1]

\* list_append(&owner->list, data); the asserts on data's list_node.
list_append(m, owner, list, data) ==
    IF data = NULL \/ m.heap[data].node # 0 THEN raise(m, "SIGABRT")
    ELSE [m EXCEPT !.heap[owner][list] = Append(@, data),
                   !.heap[data].node = @ + 1]

ast_type(m, ptr) == m.heap[ptr].type

ast_subtype(m, ptr) == m.heap[ptr].subtype

\* ast_new: the zeroed struct of the node's type.
ast_new(m, type, subtype) ==
    LET base == [type |-> type, subtype |-> subtype, node |-> 0, freed |-> 0]
        fields ==
            CASE type = "AST_SEQUENCE" -> [exps |-> <<>>]
              [] type = "AST_IF" -> [clauses |-> <<>>, alt |-> NULL]
              [] type = "AST_IF_CLAUSE" -> [pred |-> NULL, conseq |-> NULL]
              [] type = "AST_FOREACH" ->
                    [ids |-> <<>>, exp |-> NULL, body |-> NULL]
              [] type = "AST_UNARY" -> [exp |-> NULL]
              [] type = "AST_LOGICAL" /\ subtype = "AST_TERNARY" ->
                    [pred |-> NULL, conseq |-> NULL, alt |-> NULL]
              [] type \in {"AST_ASSIGNMENT", "AST_LOGICAL", "AST_ARITHMETIC",
                           "AST_RELATIONAL"} -> [lhs |-> NULL, rhs |-> NULL]
              [] type = "AST_INDEX" -> [ref |-> NULL, index |-> NULL]
              [] type = "AST_MEMBER" -> [obj |-> NULL, field |-> NULL]
              [] type = "AST_APPLICATION" ->
                    [ref |-> NULL, args |-> <<>>, kw_args |-> <<>>]
              [] type = "AST_KEYWORD_ARG" -> [id |-> NULL, exp |-> NULL]
              [] type = "AST_ID" -> [name |-> NULL_STRING]
              [] type = "AST_ARRAY" -> [count |-> 0, elts |-> <<>>]
              [] type = "AST_DICTIONARY" -> [map |-> <<>>]
              [] type = "AST_KV" -> [key |-> NULL, value |-> NULL]
              [] type = "AST_NUMBER" -> [value |-> <<>>]
              [] type = "AST_STRING" -> [value |-> NULL_STRING]
              [] OTHER -> [info |-> 0]
    IN  mem_alloc(m, base @@ fields)

\* ast_free.  assert(ast != NULL) aborts.  A node that was freed before
\* reads as zeroed memory (mem_free clears it): type AST_EMPTY, and the
\* cell is handed to free() again.
RECURSIVE ast_free(_, _)
RECURSIVE free_ast_list(_, _)
\* Mutation of free_ast_list: only the first node of the list is freed.
free_ast_list_first(m, list) ==
    IF list = <<>> THEN m ELSE ast_free(m, Head(list))

free_ast_list(m, list) ==
    IF list = <<>> THEN m
    ELSE free_ast_list(ast_free(m, Head(list)), Tail(list))

ast_free(m, ptr) ==
    LET s == m.heap[ptr]
        opt(c, q) == IF q = NULL THEN c ELSE ast_free(c, q)
        fields ==
            CASE s.type = "AST_SEQUENCE" -> free_ast_list(m, s.exps)
              [] s.type = "AST_LOGICAL" /\ s.subtype = "AST_TERNARY" ->
                    ast_free(ast_free(ast_free(m, s.pred), s.conseq), s.alt)
              [] s.type \in {"AST_ASSIGNMENT", "AST_LOGICAL", "AST_ARITHMETIC",
                             "AST_RELATIONAL"} ->
                    ast_free(ast_free(m, s.lhs), s.rhs)
              [] s.type = "AST_IF" ->
                    opt(free_ast_list(m, s.clauses), s.alt)
              [] s.type = "AST_IF_CLAUSE" ->
                    IF s.pred = NULL \/ s.conseq = NULL
                    THEN raise(m, "SIGABRT")
                    ELSE ast_free(ast_free(m, s.pred), s.conseq)
              [] s.type = "AST_FOREACH" ->
                    opt(opt(free_ast_list(m, s.ids), s.exp), s.body)
              [] s.type = "AST_UNARY" -> ast_free(m, s.exp)
              [] s.type = "AST_INDEX" -> ast_free(ast_free(m, s.ref), s.index)
              [] s.type = "AST_MEMBER" -> ast_free(ast_free(m, s.obj), s.field)
              [] s.type = "AST_APPLICATION" ->
                    free_ast_list(free_ast_list(opt(m, s.ref), s.args),
                                  s.kw_args)
              [] s.type = "AST_KEYWORD_ARG" ->
                    ast_free(ast_free(m, s.id), s.exp)
              [] s.type = "AST_ID" -> string_free(m, s.name)
              [] s.type = "AST_ARRAY" -> free_ast_list(m, s.elts)
              [] s.type = "AST_DICTIONARY" -> free_ast_list(m, s.map)
              [] s.type = "AST_KV" -> ast_free(ast_free(m, s.key), s.value)
              [] s.type = "AST_STRING" -> string_free(m, s.value)
              [] OTHER -> m
    IN  IF ptr = NULL THEN raise(m, "SIGABRT")
        ELSE IF s.freed > 0 THEN mem_free(m, ptr)
        ELSE mem_free(fields, ptr)

ast_empty(m) == ast_new(m, "AST_EMPTY", "AST_NONE")

\* Mutation of ast_binary: the operands change places.
ast_binary_swapped(m, type, subtype, lhs, rhs) ==
    LET binary(n) == IF n.ptr = NULL THEN n
                     ELSE [n EXCEPT !.heap[n.ptr].lhs = rhs,
                                    !.heap[n.ptr].rhs = lhs]
    IN  binary(ast_new(m, type, subtype))

ast_binary(m, type, subtype, lhs, rhs) ==
    LET binary(n) == IF n.ptr = NULL THEN n
                     ELSE [n EXCEPT !.heap[n.ptr].lhs = lhs,
                                    !.heap[n.ptr].rhs = rhs]
    IN  binary(ast_new(m, type, subtype))

\* Mutation of ast_ternary: conseq and alt change places.
ast_ternary_swapped(m, pred, conseq, alt) ==
    LET ternary(n) == IF n.ptr = NULL THEN n
                      ELSE [n EXCEPT !.heap[n.ptr].pred = pred,
                                     !.heap[n.ptr].conseq = alt,
                                     !.heap[n.ptr].alt = conseq]
    IN  ternary(ast_new(m, "AST_LOGICAL", "AST_TERNARY"))

ast_ternary(m, pred, conseq, alt) ==
    LET ternary(n) == IF n.ptr = NULL THEN n
                      ELSE [n EXCEPT !.heap[n.ptr].pred = pred,
                                     !.heap[n.ptr].conseq = conseq,
                                     !.heap[n.ptr].alt = alt]
    IN  ternary(ast_new(m, "AST_LOGICAL", "AST_TERNARY"))

\* Mutation of ast_if_clause: pred and conseq change places.
ast_if_clause_swapped(m, if_, pred, conseq) ==
    LET c(n) == IF n.ptr = NULL THEN n
                ELSE [list_append([n EXCEPT !.heap[n.ptr].pred = conseq,
                                            !.heap[n.ptr].conseq = pred],
                                  if_, "clauses", n.ptr)
                         EXCEPT !.ptr = n.ptr]
    IN  c(ast_new(m, "AST_IF_CLAUSE", "AST_NONE"))

\* ast_if_clause: the clause links itself into if_->clauses.
ast_if_clause(m, if_, pred, conseq) ==
    LET c(n) == IF n.ptr = NULL THEN n
                ELSE [list_append([n EXCEPT !.heap[n.ptr].pred = pred,
                                            !.heap[n.ptr].conseq = conseq],
                                  if_, "clauses", n.ptr)
                         EXCEPT !.ptr = n.ptr]
    IN  c(ast_new(m, "AST_IF_CLAUSE", "AST_NONE"))

\* Mutation of ast_member: obj and field change places.
ast_member_swapped(m, obj, field) ==
    LET member(n) == IF n.ptr = NULL THEN n
                     ELSE [n EXCEPT !.heap[n.ptr].obj = field,
                                    !.heap[n.ptr].field = obj]
    IN  member(ast_new(m, "AST_MEMBER", "AST_NONE"))

ast_member(m, obj, field) ==
    LET member(n) == IF n.ptr = NULL THEN n
                     ELSE [n EXCEPT !.heap[n.ptr].obj = obj,
                                    !.heap[n.ptr].field = field]
    IN  member(ast_new(m, "AST_MEMBER", "AST_NONE"))

\* ast_id/ast_string: the node, then a copy of the text; the node is
\* returned whether or not the copy could be allocated.
ast_id(m, s) ==
    LET name(d, id) == [d EXCEPT !.heap[id].name = d.str, !.ptr = id]
        id(n) == IF n.ptr = NULL THEN n
                 ELSE name(string_dup(n, string_text(n, s)), n.ptr)
    IN  id(ast_new(m, "AST_ID", "AST_NONE"))

ast_string(m, s) ==
    LET value(d, str) == [d EXCEPT !.heap[str].value = d.str, !.ptr = str]
        str(n) == IF n.ptr = NULL THEN n
                  ELSE value(string_dup(n, string_text(n, s)), n.ptr)
    IN  str(ast_new(m, "AST_STRING", "AST_NONE"))

ast_boolean(m, value) ==
    ast_new(m, "AST_BOOLEAN", IF value THEN "AST_TRUE" ELSE "AST_FALSE")

ast_number(m, value) ==
    LET node(n) == IF n.ptr = NULL THEN n
                   ELSE [n EXCEPT !.heap[n.ptr].value = value]
    IN  node(ast_new(m, "AST_NUMBER", "AST_NONE"))

(***************************************************************************)
(* The parser (parser.c).  A production that calls other productions is    *)
(* run one stretch at a time: from its entry, or from the return of a      *)
(* call it made, up to its next call or its return.  Its activation        *)
(* record holds its name fn, the label at of the stretch to resume with,   *)
(* and the locals that live across a call.                                 *)
(***************************************************************************)
top(m) == m.stack[Len(m.stack)]

frame(fn) ==
    [fn |-> fn, at |-> "entry"] @@
    CASE fn = "dictionary" -> [dict |-> NULL, key |-> NULL, val |-> NULL]
      [] fn = "array" -> [array |-> NULL, count |-> 0]
      [] fn = "application" ->
            [app |-> NULL, keywords |-> FALSE, arg |-> NULL]
      [] fn = "postfix" -> [ast |-> NULL]
      [] fn = "unary" -> [ret |-> "-1"]
      [] fn \in {"multiplicative", "additive"} -> [ast |-> NULL, ret |-> "-1"]
      [] fn \in {"relational", "equality", "assignment"} ->
            [lhs |-> NULL, ret |-> "-1"]
      [] fn \in {"logical_and", "logical_or"} -> [ast |-> NULL]
      [] fn = "conditional" -> [exp |-> NULL, conseq |-> NULL]
      [] fn = "iteration" -> [foreach |-> NULL]
      [] fn = "selection" -> [cond |-> NULL, pred |-> NULL]
      [] fn = "sequence" -> [seq |-> NULL]
      [] OTHER -> <<>>

\* res = fn(p): the caller resumes at label when fn has returned.
call(m, label, fn) ==
    [m EXCEPT !.stack = Append([@ EXCEPT ![Len(@)].at = label], frame(fn))]

\* return res.
return(m) == [m EXCEPT !.stack = SubSeq(@, 1, Len(@) - 1)]

\* An assignment to a local of the running production.
local(m, name, v) == [m EXCEPT !.stack[Len(m.stack)][name] = v]

failed(m) == m.res.status # "SUCCESS"

\* Mutation of parser_peek: lex is called whether or not a token is held.
parser_peek_again(m) ==
    LET lexed(r) == [m EXCEPT !.p.lexer = r.l, !.p.token = r.token,
                              !.p.ready = TRUE, !.lexed = @ + 1,
                              !.signal = IF r.l.segv THEN "SIGSEGV" ELSE @]
    IN  lexed(lex(m.p.lexer))

\* peek: lex only when no token is held.
parser_peek(m) ==
    LET lexed(r) == [m EXCEPT !.p.lexer = r.l, !.p.token = r.token,
                              !.p.ready = TRUE, !.lexed = @ + 1,
                              !.signal = IF r.l.segv THEN "SIGSEGV" ELSE @]
    IN  IF m.p.ready THEN m ELSE lexed(lex(m.p.lexer))

\* accept_any: results maps each token of the argument list to its result;
\* ret is the result as text, "-1" when the token is none of them.
accept_any(m, results) ==
    LET any(k) == IF k.p.token \in DOMAIN results
                  THEN [k EXCEPT !.p.ready = FALSE, !.ret = results[k.p.token],
                                 !.accepted =
                                     Append(@, [token |-> k.p.token,
                                                lexeme |-> lexeme_text(k.p.lexer)])]
                  ELSE [k EXCEPT !.ret = "-1"]
    IN  any(parser_peek(m))

parser_accept(m, tok) == accept_any(m, tok :> "1")

with_ast(m, ast) ==
    [m EXCEPT !.res = [status |-> IF ast = NULL THEN "NO_MEMORY" ELSE "SUCCESS",
                       ast |-> ast, error |-> NULL_STRING]]

\* with_ast(f(...)) for a constructor f that has just returned ptr.
with_new(m) == with_ast(m, m.ptr)

with_status(m, status) ==
    [m EXCEPT !.res = [status |-> status, ast |-> NULL, error |-> NULL_STRING]]

\* with_error: the message is duplicated; error is NULL_STRING when the
\* duplication fails.
with_error(m, text) ==
    LET error(d) == [d EXCEPT !.res = [status |-> "FAILURE", ast |-> NULL,
                                       error |-> d.str]]
    IN  error(string_dup(m, text))

\* Mutation of with_expected: the message does not name the rule.
with_expected_bare(m, where, what) == with_error(m, "expected " \o what)

with_expected(m, where, what) == with_error(m, where \o ": expected " \o what)

expect(m, tok, where, what) ==
    LET accepted(a) == IF a.ret = "1" THEN with_status(a, "SUCCESS")
                       ELSE with_expected(a, where, what)
    IN  accepted(parser_accept(m, tok))

\* Mutation of maybe_identifier: the lexeme is read after the next token has
\* been lexed.
maybe_identifier_late(m) ==
    LET id(i, s) == with_new(string_free(i, s))
        dup(d) == IF ~d.str.valid THEN with_status(d, "NO_MEMORY")
                  ELSE id(ast_id(d, d.str), d.str)
        read(k) == dup(string_dup_n(k, c_str(lexeme_text(k.p.lexer))))
        accepted(a) ==
            IF a.ret = "1" THEN read(parser_peek(a))
            ELSE with_new(ast_empty(a))
    IN  accepted(parser_accept(m, "TOKEN_IDENTIFIER"))

maybe_identifier(m) ==
    LET id(i, s) == with_new(string_free(i, s))
        dup(d) == IF ~d.str.valid THEN with_status(d, "NO_MEMORY")
                  ELSE id(ast_id(d, d.str), d.str)
        accepted(a) ==
            IF a.ret = "1"
            THEN dup(string_dup_n(a, c_str(lexeme_text(a.p.lexer))))
            ELSE with_new(ast_empty(a))
    IN  accepted(parser_accept(m, "TOKEN_IDENTIFIER"))

parser_string(m) ==
    LET str(i, s) == with_new(string_free(i, s))
        dup(d) == IF ~d.str.valid THEN with_status(d, "NO_MEMORY")
                  ELSE str(ast_string(d, d.str), d.str)
        expected(e) ==
            IF failed(e) THEN e
            ELSE dup(string_dup_n(e, c_str(lexeme_text(e.p.lexer))))
    IN  expected(expect(m, m.p.token, "literal", "string literal"))

\* An int64_t is written in decimal, most significant digit first (<<>> is
\* 0): times(v, base, carry) is v * base + carry.
LLONG_MAX == <<9,2,2,3,3,7,2,0,3,6,8,5,4,7,7,5,8,0,7>>

RECURSIVE times(_, _, _)
times(v, base, carry) ==
    IF v = <<>>
    THEN IF carry = 0 THEN <<>>
         ELSE Append(times(<<>>, base, carry \div 10), carry % 10)
    ELSE Append(times(SubSeq(v, 1, Len(v) - 1), base,
                      (v[Len(v)] * base + carry) \div 10),
                (v[Len(v)] * base + carry) % 10)

\* strtoll(text, NULL, base) of a text without sign or leading space: the
\* value of the longest prefix of digits of the base, LLONG_MAX when that
\* is out of range.
strtoll(text, base) ==
    LET digit(c) ==
            CASE c \in {"0","1","2","3","4","5","6","7","8","9"} ->
                    CHOOSE d \in 0..9 : ToString(d) = c
              [] c \in {"a", "A"} -> 10
              [] c \in {"b", "B"} -> 11
              [] c \in {"c", "C"} -> 12
              [] c \in {"d", "D"} -> 13
              [] c \in {"e", "E"} -> 14
              [] c \in {"f", "F"} -> 15
              [] OTHER -> 99
        n == CHOOSE k \in 0..Len(text) :
                /\ \A i \in 1..k : digit(text[i]) < base
                /\ k = Len(text) \/ digit(text[k + 1]) >= base
        over(v) == \/ Len(v) > Len(LLONG_MAX)
                   \/ /\ Len(v) = Len(LLONG_MAX)
                      /\ \E i \in 1..Len(v) :
                            /\ v[i] > LLONG_MAX[i]
                            /\ \A j \in 1..(i - 1) : v[j] = LLONG_MAX[j]
        range(v) == IF over(v) THEN LLONG_MAX ELSE v
        \* leading zeros add nothing, and more than 64 digits after them
        \* are out of range in every base
        zeros == CHOOSE k \in 0..n :
                    /\ \A i \in 1..k : text[i] = "0"
                    /\ k = n \/ text[k + 1] # "0"
        \* the digits are taken six at a time
        RECURSIVE power(_)
        power(k) == IF k = 0 THEN 1 ELSE base * power(k - 1)
        RECURSIVE small(_, _)
        small(a, b) == IF a > b THEN 0
                       ELSE small(a, b - 1) * base + digit(text[b])
        from(k) == IF k - 6 > zeros THEN k - 6 ELSE zeros
        RECURSIVE value(_)
        value(k) ==
            IF k = zeros THEN <<>>
            ELSE range(times(value(from(k)), power(k - from(k)),
                             small(from(k) + 1, k)))
    IN  IF n - zeros > 64 THEN LLONG_MAX ELSE value(n)

\* Mutation of number: the lexeme is read in base 10 whatever the token.
parser_number_decimal(m) ==
    LET lexeme == lexeme_text(m.p.lexer)
        base(tok) == CASE tok = "TOKEN_BIN_NUMBER" -> 2
                       [] tok = "TOKEN_OCT_NUMBER" -> 8
                       [] tok = "TOKEN_DEC_NUMBER" -> 10
                       [] tok = "TOKEN_HEX_NUMBER" -> 16
                       [] OTHER -> 0
        expected(e) ==
            IF failed(e) THEN e
            ELSE IF base(e.p.token) = 0
                 THEN with_error(e, "invalid number: `" \o c_str(lexeme) \o "'")
                 ELSE with_new(ast_number(e, strtoll(lexeme, 10)))
    IN  expected(expect(m, m.p.token, "literal", "integer constant"))

parser_number(m) ==
    LET lexeme == lexeme_text(m.p.lexer)
        base(tok) == CASE tok = "TOKEN_BIN_NUMBER" -> 2
                       [] tok = "TOKEN_OCT_NUMBER" -> 8
                       [] tok = "TOKEN_DEC_NUMBER" -> 10
                       [] tok = "TOKEN_HEX_NUMBER" -> 16
                       [] OTHER -> 0
        expected(e) ==
            IF failed(e) THEN e
            ELSE IF base(e.p.token) = 0
                 THEN with_error(e, "invalid number: `" \o c_str(lexeme) \o "'")
                 ELSE with_new(ast_number(e, strtoll(lexeme, base(e.p.token))))
    IN  expected(expect(m, m.p.token, "literal", "integer constant"))

boolean(m) ==
    LET expected(e) ==
            IF failed(e) THEN e
            ELSE with_new(ast_boolean(e, e.p.token = "TOKEN_TRUE"))
    IN  expected(expect(m, m.p.token, "literal", "boolean value"))

dictionary(m) ==
    LET opt(c, q) == IF q = NULL THEN c ELSE ast_free(c, q)
        cleanup(c) ==
            return(ast_free(opt(opt(c, top(c).key), top(c).val), top(c).dict))
        close(a) ==
            IF a.ret = "1" THEN return(with_ast(a, top(a).dict))
            ELSE return(with_expected(ast_free(a, top(a).dict),
                                      "dictionary", "closing brace"))
        peeked(k) ==
            IF k.p.token # "TOKEN_R_BRACE" THEN call(k, "key", "expression")
            ELSE close(parser_accept(k, "TOKEN_R_BRACE"))
        comma(a) ==
            IF a.ret = "1" THEN peeked(parser_peek(a))
            ELSE close(parser_accept(a, "TOKEN_R_BRACE"))
        kv(n) ==
            IF n.ptr = NULL THEN cleanup(with_status(n, "NO_MEMORY"))
            ELSE comma(parser_accept(
                     local(local(list_append(
                         [n EXCEPT !.heap[n.ptr].key = top(n).key,
                                   !.heap[n.ptr].value = top(n).val],
                         top(n).dict, "map", n.ptr), "key", NULL), "val", NULL),
                     "TOKEN_COMMA"))
        colon(a) ==
            IF a.ret = "1" THEN call(a, "val", "expression")
            ELSE cleanup(with_expected(a, "dictionary", "colon"))
        brace(a) ==
            IF a.ret = "1" THEN return(with_ast(a, top(a).dict))
            ELSE call(a, "key", "expression")
        dict(n) ==
            IF n.ptr = NULL THEN return(with_status(n, "NO_MEMORY"))
            ELSE brace(parser_accept(local(n, "dict", n.ptr), "TOKEN_R_BRACE"))
        expected(e) ==
            IF failed(e) THEN return(e)
            ELSE dict(ast_new(e, "AST_DICTIONARY", "AST_NONE"))
    IN  CASE top(m).at = "entry" ->
                expected(expect(m, "TOKEN_L_BRACE", "dictionary", "opening brace"))
          [] top(m).at = "key" ->
                IF failed(m) THEN cleanup(m)
                ELSE IF ast_type(m, m.res.ast) = "AST_EMPTY"
                     THEN cleanup(with_expected(local(m, "key", m.res.ast),
                                                "dictionary", "key"))
                     ELSE colon(parser_accept(local(m, "key", m.res.ast),
                                              "TOKEN_COLON"))
          [] top(m).at = "val" ->
                IF failed(m) THEN cleanup(m)
                ELSE IF ast_type(m, m.res.ast) = "AST_EMPTY"
                     THEN cleanup(with_expected(local(m, "val", m.res.ast),
                                                "dictionary", "value"))
                     ELSE kv(ast_new(local(m, "val", m.res.ast),
                                     "AST_KV", "AST_NONE"))

\* Mutation of array: the count of the elements is not stored in the node.
array_uncounted(m) ==
    LET close(a) ==
            IF a.ret = "1"
            THEN return(with_ast(a, top(a).array))
            ELSE return(with_expected(ast_free(a, top(a).array),
                                      "array", "closing bracket"))
        peeked(k) ==
            IF k.p.token # "TOKEN_R_BRACKET" THEN call(k, "exp", "expression")
            ELSE close(parser_accept(k, "TOKEN_R_BRACKET"))
        comma(a) ==
            IF a.ret = "1" THEN peeked(parser_peek(a))
            ELSE close(parser_accept(a, "TOKEN_R_BRACKET"))
        bracket(a) ==
            IF a.ret = "1" THEN return(with_ast(a, top(a).array))
            ELSE call(a, "exp", "expression")
        new(n) ==
            IF n.ptr = NULL THEN return(with_status(n, "NO_MEMORY"))
            ELSE bracket(parser_accept(local(n, "array", n.ptr),
                                       "TOKEN_R_BRACKET"))
        expected(e) ==
            IF failed(e) THEN return(e)
            ELSE new(ast_new(e, "AST_ARRAY", "AST_NONE"))
    IN  CASE top(m).at = "entry" ->
                expected(expect(m, "TOKEN_L_BRACKET", "array", "opening bracket"))
          [] top(m).at = "exp" ->
                IF failed(m) THEN return(ast_free(m, top(m).array))
                ELSE IF ast_type(m, m.res.ast) = "AST_EMPTY"
                     THEN return(with_expected(
                              ast_free(ast_free(m, top(m).array), m.res.ast),
                              "array", "expression"))
                     ELSE comma(parser_accept(
                              local(list_append(m, top(m).array, "elts",
                                                m.res.ast),
                                    "count", top(m).count + 1),
                              "TOKEN_COMMA"))

array(m) ==
    LET close(a) ==
            IF a.ret = "1"
            THEN return(with_ast([a EXCEPT !.heap[top(a).array].count =
                                               top(a).count],
                                 top(a).array))
            ELSE return(with_expected(ast_free(a, top(a).array),
                                      "array", "closing bracket"))
        peeked(k) ==
            IF k.p.token # "TOKEN_R_BRACKET" THEN call(k, "exp", "expression")
            ELSE close(parser_accept(k, "TOKEN_R_BRACKET"))
        comma(a) ==
            IF a.ret = "1" THEN peeked(parser_peek(a))
            ELSE close(parser_accept(a, "TOKEN_R_BRACKET"))
        bracket(a) ==
            IF a.ret = "1" THEN return(with_ast(a, top(a).array))
            ELSE call(a, "exp", "expression")
        new(n) ==
            IF n.ptr = NULL THEN return(with_status(n, "NO_MEMORY"))
            ELSE bracket(parser_accept(local(n, "array", n.ptr),
                                       "TOKEN_R_BRACKET"))
        expected(e) ==
            IF failed(e) THEN return(e)
            ELSE new(ast_new(e, "AST_ARRAY", "AST_NONE"))
    IN  CASE top(m).at = "entry" ->
                expected(expect(m, "TOKEN_L_BRACKET", "array", "opening bracket"))
          [] top(m).at = "exp" ->
                IF failed(m) THEN return(ast_free(m, top(m).array))
                ELSE IF ast_type(m, m.res.ast) = "AST_EMPTY"
                     THEN return(with_expected(
                              ast_free(ast_free(m, top(m).array), m.res.ast),
                              "array", "expression"))
                     ELSE comma(parser_accept(
                              local(list_append(m, top(m).array, "elts",
                                                m.res.ast),
                                    "count", top(m).count + 1),
                              "TOKEN_COMMA"))

literal(m) ==
    LET peeked(k) ==
            CASE k.p.token \in {"TOKEN_TRUE", "TOKEN_FALSE"} ->
                    return(boolean(k))
              [] k.p.token \in {"TOKEN_DEC_NUMBER", "TOKEN_BIN_NUMBER",
                                "TOKEN_OCT_NUMBER", "TOKEN_HEX_NUMBER"} ->
                    return(parser_number(k))
              [] k.p.token \in {"TOKEN_STRING", "TOKEN_MULTILINE_STRING"} ->
                    return(parser_string(k))
              [] k.p.token = "TOKEN_L_BRACKET" -> call(k, "return", "array")
              [] k.p.token = "TOKEN_L_BRACE" -> call(k, "return", "dictionary")
              [] OTHER -> return(with_new(ast_empty(k)))
    IN  CASE top(m).at = "entry" -> peeked(parser_peek(m))
          [] top(m).at = "return" -> return(m)

primary(m) ==
    LET paren(a, exp) ==
            IF a.ret = "1" THEN return(with_ast(a, exp))
            ELSE return(with_error(ast_free(a, exp), "expected closing paren"))
        peeked(k) ==
            CASE k.p.token = "TOKEN_L_PAREN" ->
                    call(parser_accept(k, "TOKEN_L_PAREN"), "exp", "expression")
              [] k.p.token = "TOKEN_IDENTIFIER" -> return(maybe_identifier(k))
              [] OTHER -> call(k, "return", "literal")
    IN  CASE top(m).at = "entry" -> peeked(parser_peek(m))
          [] top(m).at = "exp" ->
                IF failed(m) THEN return(m)
                ELSE IF ast_type(m, m.res.ast) = "AST_EMPTY"
                     THEN return(with_error(ast_free(m, m.res.ast),
                                            "invalid expression"))
                     ELSE paren(parser_accept(m, "TOKEN_R_PAREN"), m.res.ast)
          [] top(m).at = "return" -> return(m)

subscript(m) ==
    LET index(n, i) ==
            IF n.ptr = NULL
            THEN return(with_status(ast_free(n, i), "NO_MEMORY"))
            ELSE return(with_new([n EXCEPT !.heap[n.ptr].index = i]))
        bracket(a, i) ==
            IF a.ret = "1" THEN index(ast_new(a, "AST_INDEX", "AST_NONE"), i)
            ELSE return(with_expected(ast_free(a, i),
                                      "subscript", "closing bracket"))
        expected(e) ==
            IF failed(e) THEN return(e) ELSE call(e, "index", "expression")
    IN  CASE top(m).at = "entry" ->
                expected(expect(m, "TOKEN_L_BRACKET",
                                "subscript", "opening bracket"))
          [] top(m).at = "index" ->
                IF failed(m) THEN return(m)
                ELSE IF ast_type(m, m.res.ast) = "AST_EMPTY"
                     THEN return(with_expected(ast_free(m, m.res.ast),
                                               "subscript", "expression"))
                     ELSE bracket(parser_accept(m, "TOKEN_R_BRACKET"),
                                  m.res.ast)

application(m) ==
    LET close(a) ==
            IF a.ret = "1" THEN return(with_ast(a, top(a).app))
            ELSE return(with_expected(ast_free(a, top(a).app),
                                      "application", "closing paren"))
        peeked(k) ==
            IF k.p.token # "TOKEN_R_PAREN" THEN call(k, "arg", "expression")
            ELSE close(parser_accept(k, "TOKEN_R_PAREN"))
        comma(a) ==
            IF a.ret = "1" THEN peeked(parser_peek(a))
            ELSE close(parser_accept(a, "TOKEN_R_PAREN"))
        kw(n, value) ==
            IF n.ptr = NULL
            THEN return(with_status(
                     ast_free(ast_free(ast_free(n, top(n).app), top(n).arg),
                              value),
                     "NO_MEMORY"))
            ELSE comma(parser_accept(
                     list_append([n EXCEPT !.heap[n.ptr].id = top(n).arg,
                                           !.heap[n.ptr].exp = value],
                                 top(n).app, "kw_args", n.ptr),
                     "TOKEN_COMMA"))
        colon(a, arg) ==
            IF (top(a).keywords \/ a.ret = "1") /\ a.ret # "1"
            THEN return(with_expected(ast_free(ast_free(a, top(a).app), arg),
                                      "application", "keyword"))
            ELSE IF ~(top(a).keywords \/ a.ret = "1")
            THEN comma(parser_accept(list_append(a, top(a).app, "args", arg),
                                     "TOKEN_COMMA"))
            ELSE IF ast_type(a, arg) # "AST_ID"
            THEN return(with_expected(ast_free(ast_free(a, top(a).app), arg),
                                      "application", "kwarg name"))
            ELSE call(local(local(a, "keywords", TRUE), "arg", arg),
                      "value", "expression")
        paren(a) ==
            IF a.ret = "1" THEN return(with_ast(a, top(a).app))
            ELSE call(a, "arg", "expression")
        app(n) ==
            IF n.ptr = NULL THEN return(with_status(n, "NO_MEMORY"))
            ELSE paren(parser_accept(local(n, "app", n.ptr), "TOKEN_R_PAREN"))
        expected(e) ==
            IF failed(e) THEN return(e)
            ELSE app(ast_new(e, "AST_APPLICATION", "AST_NONE"))
    IN  CASE top(m).at = "entry" ->
                expected(expect(m, "TOKEN_L_PAREN",
                                "application", "opening paren"))
          [] top(m).at = "arg" ->
                IF failed(m) THEN return(ast_free(m, top(m).app))
                ELSE IF ast_type(m, m.res.ast) = "AST_EMPTY"
                     THEN return(with_expected(
                              ast_free(ast_free(m, top(m).app), m.res.ast),
                              "application", "argument"))
                     ELSE colon(parser_accept(m, "TOKEN_COLON"), m.res.ast)
          [] top(m).at = "value" ->
                IF failed(m)
                THEN return(ast_free(ast_free(m, top(m).app), top(m).arg))
                ELSE IF ast_type(m, m.res.ast) = "AST_EMPTY"
                     THEN return(with_expected(
                              ast_free(ast_free(ast_free(m, top(m).app),
                                                top(m).arg), m.res.ast),
                              "application", "kwarg value"))
                     ELSE kw(ast_new(m, "AST_KEYWORD_ARG", "AST_NONE"),
                             m.res.ast)

postfix(m) ==
    LET exit(c) == return(ast_free(c, top(c).ast))
        peeked(k) ==
            CASE k.p.token = "TOKEN_DOT" ->
                    call(parser_accept(k, "TOKEN_DOT"), "right", "primary")
              [] k.p.token = "TOKEN_L_PAREN" -> call(k, "app", "application")
              [] k.p.token = "TOKEN_L_BRACKET" -> call(k, "index", "subscript")
              [] OTHER -> return(with_ast(k, top(k).ast))
        loop(c) == peeked(parser_peek(c))
        ref(n) ==
            IF n.ptr = NULL THEN exit(with_status(n, "NO_MEMORY"))
            ELSE loop(local(n, "ast", n.ptr))
    IN  CASE top(m).at = "entry" -> call(m, "primary", "primary")
          [] top(m).at = "primary" ->
                IF failed(m) THEN return(m)
                ELSE IF ast_type(m, m.res.ast) # "AST_ID" THEN return(m)
                ELSE loop(local(m, "ast", m.res.ast))
          [] top(m).at = "right" ->
                IF failed(m) THEN exit(m)
                ELSE IF ast_type(m, m.res.ast) = "AST_EMPTY"
                THEN exit(with_error(ast_free(m, m.res.ast),
                                     "expected field name"))
                ELSE IF ast_type(m, m.res.ast) # "AST_ID"
                THEN exit(with_error(ast_free(m, m.res.ast),
                                     "field name must be plain id"))
                ELSE ref(ast_member(m, top(m).ast, m.res.ast))
          [] top(m).at = "app" ->
                IF failed(m) THEN exit(m)
                ELSE loop(local([m EXCEPT !.heap[m.res.ast].ref = top(m).ast],
                                "ast", m.res.ast))
          [] top(m).at = "index" ->
                IF failed(m) THEN exit(m)
                ELSE loop(local([m EXCEPT !.heap[m.res.ast].ref = top(m).ast],
                                "ast", m.res.ast))

unary(m) ==
    LET operator(a) == call(local(a, "ret", a.ret), "postfix", "postfix")
        new(n, ast) ==
            IF n.ptr = NULL
            THEN return(with_status(ast_free(n, ast), "NO_MEMORY"))
            ELSE return(with_new([n EXCEPT !.heap[n.ptr].exp = ast]))
    IN  CASE top(m).at = "entry" ->
                operator(accept_any(m, "TOKEN_NOT" :> "AST_NOT" @@
                                       "TOKEN_PLUS" :> "AST_PLUS" @@
                                       "TOKEN_MINUS" :> "AST_MINUS"))
          [] top(m).at = "postfix" ->
                IF failed(m) THEN return(m)
                ELSE IF ast_type(m, m.res.ast) = "AST_EMPTY"
                THEN (IF top(m).ret = "-1" THEN return(with_ast(m, m.res.ast))
                      ELSE return(with_expected(ast_free(m, m.res.ast),
                                                "unary", "expression")))
                ELSE IF top(m).ret # "-1"
                THEN new(ast_new(m, "AST_UNARY", top(m).ret), m.res.ast)
                ELSE return(with_ast(m, m.res.ast))

multiplicative(m) ==
    LET
        operator(a) ==
            IF a.ret # "-1" THEN call(local(a, "ret", a.ret), "rhs", "unary")
            ELSE return(with_ast(a, top(a).ast))
        loop(c) == operator(accept_any(c, "TOKEN_STAR" :> "AST_MUL" @@ "TOKEN_PERCENT" :> "AST_MOD" @@
                              "TOKEN_SLASH" :> "AST_DIV"))
        binary(n, rhs) ==
            IF n.ptr = NULL
            THEN return(with_status(ast_free(ast_free(n, top(n).ast), rhs),
                                    "NO_MEMORY"))
            ELSE loop(local(n, "ast", n.ptr))
    IN  CASE top(m).at = "entry" -> call(m, "lhs", "unary")
          [] top(m).at = "lhs" ->
                IF failed(m) THEN return(m)
                ELSE loop(local(m, "ast", m.res.ast))
          [] top(m).at = "rhs" ->
                IF failed(m) THEN return(ast_free(m, top(m).ast))
                ELSE IF ast_type(m, m.res.ast) = "AST_EMPTY"
                THEN return(with_expected(
                         ast_free(ast_free(m, top(m).ast), m.res.ast),
                         "multiplicative", "expression"))
                ELSE binary(ast_binary(m, "AST_ARITHMETIC", top(m).ret,
                                       top(m).ast, m.res.ast),
                            m.res.ast)

additive(m) ==
    LET
        operator(a) ==
            IF a.ret # "-1" THEN call(local(a, "ret", a.ret), "rhs", "multiplicative")
            ELSE return(with_ast(a, top(a).ast))
        loop(c) == operator(accept_any(c, "TOKEN_PLUS" :> "AST_ADD" @@ "TOKEN_MINUS" :> "AST_SUB"))
        binary(n, rhs) ==
            IF n.ptr = NULL
            THEN return(with_status(ast_free(ast_free(n, top(n).ast), rhs),
                                    "NO_MEMORY"))
            ELSE loop(local(n, "ast", n.ptr))
    IN  CASE top(m).at = "entry" -> call(m, "lhs", "multiplicative")
          [] top(m).at = "lhs" ->
                IF failed(m) THEN return(m)
                ELSE loop(local(m, "ast", m.res.ast))
          [] top(m).at = "rhs" ->
                IF failed(m) THEN return(ast_free(m, top(m).ast))
                ELSE IF ast_type(m, m.res.ast) = "AST_EMPTY"
                THEN return(with_expected(
                         ast_free(ast_free(m, top(m).ast), m.res.ast),
                         "additive", "expression"))
                ELSE binary(ast_binary(m, "AST_ARITHMETIC", top(m).ret,
                                       top(m).ast, m.res.ast),
                            m.res.ast)

logical_and(m) ==
    LET
        operator(a) ==
            IF a.ret = "1" THEN call(a, "rhs", "equality")
            ELSE return(with_ast(a, top(a).ast))
        loop(c) == operator(parser_accept(c, "TOKEN_AND"))
        binary(n, rhs) ==
            IF n.ptr = NULL
            THEN return(with_status(ast_free(ast_free(n, top(n).ast), rhs),
                                    "NO_MEMORY"))
            ELSE loop(local(n, "ast", n.ptr))
    IN  CASE top(m).at = "entry" -> call(m, "lhs", "equality")
          [] top(m).at = "lhs" ->
                IF failed(m) THEN return(m)
                ELSE loop(local(m, "ast", m.res.ast))
          [] top(m).at = "rhs" ->
                IF failed(m) THEN return(ast_free(m, top(m).ast))
                ELSE IF ast_type(m, m.res.ast) = "AST_EMPTY"
                THEN return(with_expected(
                         ast_free(ast_free(m, top(m).ast), m.res.ast),
                         "logical and", "expression"))
                ELSE binary(ast_binary(m, "AST_LOGICAL", "AST_AND",
                                       top(m).ast, m.res.ast),
                            m.res.ast)

logical_or(m) ==
    LET
        operator(a) ==
            IF a.ret = "1" THEN call(a, "rhs", "logical_and")
            ELSE return(with_ast(a, top(a).ast))
        loop(c) == operator(parser_accept(c, "TOKEN_OR"))
        binary(n, rhs) ==
            IF n.ptr = NULL
            THEN return(with_status(ast_free(ast_free(n, top(n).ast), rhs),
                                    "NO_MEMORY"))
            ELSE loop(local(n, "ast", n.ptr))
    IN  CASE top(m).at = "entry" -> call(m, "lhs", "logical_and")
          [] top(m).at = "lhs" ->
                IF failed(m) THEN return(m)
                ELSE loop(local(m, "ast", m.res.ast))
          [] top(m).at = "rhs" ->
                IF failed(m) THEN return(ast_free(m, top(m).ast))
                ELSE IF ast_type(m, m.res.ast) = "AST_EMPTY"
                THEN return(with_expected(
                         ast_free(ast_free(m, top(m).ast), m.res.ast),
                         "logical or", "expression"))
                ELSE binary(ast_binary(m, "AST_LOGICAL", "AST_OR",
                                       top(m).ast, m.res.ast),
                            m.res.ast)

relational(m) ==
    LET operand(c) == call(c, "rhs", "additive")
        not_in(a) ==
            IF a.ret # "1"
            THEN return(with_error(ast_free(a, top(a).lhs),
                                   "expected `in' after `not'"))
            ELSE operand(a)
        operator(a) ==
            IF a.ret = "-1" THEN return(with_ast(a, top(a).lhs))
            ELSE IF a.ret = "AST_NOT_IN"
            THEN not_in(parser_accept(local(a, "ret", a.ret), "TOKEN_IN"))
            ELSE operand(local(a, "ret", a.ret))
        binary(n, rhs) ==
            IF n.ptr = NULL
            THEN return(with_status(ast_free(ast_free(n, top(n).lhs), rhs),
                                    "NO_MEMORY"))
            ELSE return(with_new(n))
    IN  CASE top(m).at = "entry" -> call(m, "lhs", "additive")
          [] top(m).at = "lhs" ->
                IF failed(m) THEN return(m)
                ELSE operator(accept_any(local(m, "lhs", m.res.ast),
                         "TOKEN_LT" :> "AST_LT" @@ "TOKEN_LE" :> "AST_LE" @@
                         "TOKEN_GT" :> "AST_GT" @@ "TOKEN_GE" :> "AST_GE" @@
                         "TOKEN_IN" :> "AST_IN" @@ "TOKEN_NOT" :> "AST_NOT_IN"))
          [] top(m).at = "rhs" ->
                IF failed(m) THEN return(ast_free(m, top(m).lhs))
                ELSE IF ast_type(m, m.res.ast) = "AST_EMPTY"
                THEN return(with_expected(
                         ast_free(ast_free(m, top(m).lhs), m.res.ast),
                         "relational", "expression"))
                ELSE binary(ast_binary(m, "AST_RELATIONAL", top(m).ret,
                                       top(m).lhs, m.res.ast),
                            m.res.ast)

equality(m) ==
    LET operator(a) ==
            IF a.ret = "-1" THEN return(with_ast(a, top(a).lhs))
            ELSE call(local(a, "ret", a.ret), "rhs", "relational")
        binary(n, rhs) ==
            IF n.ptr = NULL
            THEN return(with_status(ast_free(ast_free(n, top(n).lhs), rhs),
                                    "NO_MEMORY"))
            ELSE return(with_new(n))
    IN  CASE top(m).at = "entry" -> call(m, "lhs", "relational")
          [] top(m).at = "lhs" ->
                IF failed(m) THEN return(m)
                ELSE operator(accept_any(local(m, "lhs", m.res.ast),
                         "TOKEN_EQ" :> "AST_EQ" @@ "TOKEN_NE" :> "AST_NE"))
          [] top(m).at = "rhs" ->
                IF failed(m) THEN return(ast_free(m, top(m).lhs))
                ELSE IF ast_type(m, m.res.ast) = "AST_EMPTY"
                THEN return(with_expected(
                         ast_free(ast_free(m, top(m).lhs), m.res.ast),
                         "equality", "expression"))
                ELSE binary(ast_binary(m, "AST_RELATIONAL", top(m).ret,
                                       top(m).lhs, m.res.ast),
                            m.res.ast)

conditional(m) ==
    LET ternary(n, alt) ==
            IF n.ptr = NULL
            THEN return(with_status(
                     ast_free(ast_free(ast_free(n, top(n).exp), top(n).conseq),
                              alt),
                     "NO_MEMORY"))
            ELSE return(with_new(n))
        colon(a) ==
            IF a.ret = "1" THEN call(a, "alt", "expression")
            ELSE return(with_expected(
                     ast_free(ast_free(a, top(a).exp), top(a).conseq),
                     "ternary", "colon"))
        question(a) ==
            IF a.ret = "1" THEN call(a, "conseq", "expression")
            ELSE return(with_ast(a, top(a).exp))
    IN  CASE top(m).at = "entry" -> call(m, "exp", "logical_or")
          [] top(m).at = "exp" ->
                IF failed(m) THEN return(m)
                ELSE question(parser_accept(local(m, "exp", m.res.ast),
                                            "TOKEN_TERNARY"))
          [] top(m).at = "conseq" ->
                IF failed(m) THEN return(ast_free(m, top(m).exp))
                ELSE IF ast_type(m, m.res.ast) = "AST_EMPTY"
                THEN return(with_expected(
                         ast_free(ast_free(m, top(m).exp), m.res.ast),
                         "ternary", "true clause"))
                ELSE colon(parser_accept(local(m, "conseq", m.res.ast),
                                         "TOKEN_COLON"))
          [] top(m).at = "alt" ->
                IF failed(m)
                THEN return(ast_free(ast_free(m, top(m).exp), top(m).conseq))
                ELSE IF ast_type(m, m.res.ast) = "AST_EMPTY"
                THEN return(with_expected(
                         ast_free(ast_free(ast_free(m, top(m).exp),
                                           top(m).conseq), m.res.ast),
                         "ternary", "false clause"))
                ELSE ternary(ast_ternary(m, top(m).exp, top(m).conseq,
                                         m.res.ast),
                             m.res.ast)

assignment(m) ==
    LET operator(a) ==
            IF a.ret = "-1" THEN return(with_ast(a, top(a).lhs))
            ELSE IF ast_type(a, top(a).lhs) # "AST_ID"
            THEN return(with_error(ast_free(a, top(a).lhs),
                                   "assignment target must be an id"))
            ELSE call(local(a, "ret", a.ret), "rhs", "expression")
        binary(n, rhs) ==
            IF n.ptr = NULL
            THEN return(with_status(ast_free(ast_free(n, top(n).lhs), rhs),
                                    "NO_MEMORY"))
            ELSE return(with_new(n))
    IN  CASE top(m).at = "entry" -> call(m, "lhs", "conditional")
          [] top(m).at = "lhs" ->
                IF failed(m) THEN return(m)
                ELSE operator(accept_any(local(m, "lhs", m.res.ast),
                         "TOKEN_ASSIGN" :> "AST_ASSIGN" @@
                         "TOKEN_ADD_ASSIGN" :> "AST_ADD_ASSIGN" @@
                         "TOKEN_SUB_ASSIGN" :> "AST_SUB_ASSIGN" @@
                         "TOKEN_MUL_ASSIGN" :> "AST_MUL_ASSIGN" @@
                         "TOKEN_DIV_ASSIGN" :> "AST_DIV_ASSIGN" @@
                         "TOKEN_MOD_ASSIGN" :> "AST_MOD_ASSIGN"))
          [] top(m).at = "rhs" ->
                IF failed(m) THEN return(ast_free(m, top(m).lhs))
                ELSE IF ast_type(m, m.res.ast) = "AST_EMPTY"
                THEN return(with_expected(
                         ast_free(ast_free(m, top(m).lhs), m.res.ast),
                         "assignment", "expression"))
                ELSE binary(ast_binary(m, "AST_ASSIGNMENT", top(m).ret,
                                       top(m).lhs, m.res.ast),
                            m.res.ast)

expression(m) ==
    CASE top(m).at = "entry" -> call(m, "return", "assignment")
      [] top(m).at = "return" -> return(m)

iteration(m) ==
    LET endforeach(a) ==
            IF a.ret = "1" THEN return(with_ast(a, top(a).foreach))
            ELSE return(with_expected(ast_free(a, top(a).foreach),
                                      "foreach", "endforeach"))
        colon(a) ==
            IF a.ret = "1" THEN call(a, "exp", "expression")
            ELSE return(with_expected(ast_free(a, top(a).foreach),
                                      "foreach", "colon"))
        comma(a) ==
            IF a.ret = "1" THEN local(a, "at", "ids")
            ELSE colon(parser_accept(a, "TOKEN_COLON"))
        id(i) ==
            IF failed(i) THEN return(ast_free(i, top(i).foreach))
            ELSE IF ast_type(i, i.res.ast) # "AST_ID"
            THEN return(with_expected(
                     ast_free(ast_free(i, top(i).foreach), i.res.ast),
                     "foreach", "identifier"))
            ELSE comma(parser_accept(
                     list_append(i, top(i).foreach, "ids", i.res.ast),
                     "TOKEN_COMMA"))
        foreach(n) ==
            IF n.ptr = NULL THEN return(with_status(n, "NO_MEMORY"))
            ELSE id(maybe_identifier(local(n, "foreach", n.ptr)))
        expected(e) ==
            IF failed(e) THEN return(e)
            ELSE foreach(ast_new(e, "AST_FOREACH", "AST_NONE"))
    IN  CASE top(m).at = "entry" ->
                expected(expect(m, "TOKEN_FOREACH",
                                "foreach", "`foreach' keyword"))
          [] top(m).at = "ids" -> id(maybe_identifier(m))
          [] top(m).at = "exp" ->
                IF failed(m) THEN return(ast_free(m, top(m).foreach))
                ELSE IF ast_type(m, m.res.ast) = "AST_EMPTY"
                THEN return(with_expected(
                         ast_free(ast_free(m, top(m).foreach), m.res.ast),
                         "foreach", "expression"))
                ELSE call([m EXCEPT !.heap[top(m).foreach].exp = m.res.ast],
                          "body", "sequence")
          [] top(m).at = "body" ->
                IF failed(m) THEN return(ast_free(m, top(m).foreach))
                ELSE endforeach(parser_accept(
                         [m EXCEPT !.heap[top(m).foreach].body = m.res.ast],
                         "TOKEN_ENDFOREACH"))

selection(m) ==
    LET endif(a) ==
            IF a.ret = "1" THEN return(with_ast(a, top(a).cond))
            ELSE return(with_expected(ast_free(a, top(a).cond), "if", "endif"))
        else(a) ==
            IF a.ret = "1" THEN call(a, "alt", "sequence")
            ELSE endif(parser_accept(a, "TOKEN_ENDIF"))
        elif(a) ==
            IF a.ret = "1" THEN call(a, "pred", "expression")
            ELSE else(parser_accept(a, "TOKEN_ELSE"))
        clause(n, conseq) ==
            IF n.ptr = NULL
            THEN return(with_status(
                     ast_free(ast_free(ast_free(n, top(n).cond), top(n).pred),
                              conseq),
                     "NO_MEMORY"))
            ELSE elif(parser_accept(n, "TOKEN_ELIF"))
        if(n) ==
            IF n.ptr = NULL THEN return(with_status(n, "NO_MEMORY"))
            ELSE call(local(n, "cond", n.ptr), "pred", "expression")
        expected(e) ==
            IF failed(e) THEN return(e)
            ELSE if(ast_new(e, "AST_IF", "AST_NONE"))
    IN  CASE top(m).at = "entry" ->
                expected(expect(m, "TOKEN_IF", "if", "`if' keyword"))
          [] top(m).at = "pred" ->
                IF failed(m) THEN return(ast_free(m, top(m).cond))
                ELSE IF ast_type(m, m.res.ast) = "AST_EMPTY"
                THEN return(with_expected(
                         ast_free(ast_free(m, top(m).cond), m.res.ast),
                         "if", "predicate"))
                ELSE call(local(m, "pred", m.res.ast), "body", "sequence")
          [] top(m).at = "body" ->
                IF failed(m)
                THEN return(ast_free(ast_free(m, top(m).cond), top(m).pred))
                ELSE clause(ast_if_clause(m, top(m).cond, top(m).pred,
                                          m.res.ast),
                            m.res.ast)
          [] top(m).at = "alt" ->
                IF failed(m) THEN return(ast_free(m, top(m).cond))
                ELSE endif(parser_accept(
                         [m EXCEPT !.heap[top(m).cond].alt = m.res.ast],
                         "TOKEN_ENDIF"))

statement(m) ==
    LET peeked(k) ==
            CASE k.p.token = "TOKEN_END" -> return(with_new(ast_empty(k)))
              [] k.p.token = "TOKEN_IF" -> call(k, "return", "selection")
              [] k.p.token = "TOKEN_FOREACH" -> call(k, "return", "iteration")
              [] k.p.token = "TOKEN_BREAK" ->
                    return(with_new(ast_new(parser_accept(k, "TOKEN_BREAK"),
                                            "AST_JUMP", "AST_BREAK")))
              [] k.p.token = "TOKEN_CONTINUE" ->
                    return(with_new(ast_new(parser_accept(k, "TOKEN_CONTINUE"),
                                            "AST_JUMP", "AST_CONTINUE")))
              [] OTHER -> call(k, "return", "expression")
    IN  CASE top(m).at = "entry" -> peeked(parser_peek(m))
          [] top(m).at = "return" -> return(m)

\* Mutation of sequence: an Empty statement, the first or the one that ends
\* the sequence, is kept as a statement of the Sequence node.
sequence_with_empty(m) ==
    LET seq(n, first) ==
            IF n.ptr = NULL
            THEN return(with_status(ast_free(n, first), "NO_MEMORY"))
            ELSE call(list_append(local(n, "seq", n.ptr), n.ptr, "exps", first),
                      "next", "statement")
    IN  CASE top(m).at = "entry" -> call(m, "first", "statement")
          [] top(m).at = "first" ->
                IF failed(m) THEN return(m)
                ELSE seq(ast_new(m, "AST_SEQUENCE", "AST_NONE"), m.res.ast)
          [] top(m).at = "next" ->
                IF ~failed(m) /\ ast_type(m, m.res.ast) # "AST_EMPTY"
                THEN call(list_append(m, top(m).seq, "exps", m.res.ast),
                          "next", "statement")
                ELSE IF failed(m) THEN return(ast_free(m, top(m).seq))
                ELSE return(with_ast(list_append(m, top(m).seq, "exps",
                                                 m.res.ast),
                                     top(m).seq))

sequence(m) ==
    LET seq(n, first) ==
            IF n.ptr = NULL
            THEN return(with_status(ast_free(n, first), "NO_MEMORY"))
            ELSE call(list_append(local(n, "seq", n.ptr), n.ptr, "exps", first),
                      "next", "statement")
    IN  CASE top(m).at = "entry" -> call(m, "first", "statement")
          [] top(m).at = "first" ->
                IF failed(m) THEN return(m)
                ELSE IF ast_type(m, m.res.ast) = "AST_EMPTY"
                THEN return(with_ast(m, m.res.ast))
                ELSE seq(ast_new(m, "AST_SEQUENCE", "AST_NONE"), m.res.ast)
          [] top(m).at = "next" ->
                IF ~failed(m) /\ ast_type(m, m.res.ast) # "AST_EMPTY"
                THEN call(list_append(m, top(m).seq, "exps", m.res.ast),
                          "next", "statement")
                ELSE IF failed(m) THEN return(ast_free(m, top(m).seq))
                ELSE return(with_ast(ast_free(m, m.res.ast), top(m).seq))

(***************************************************************************)
(* The tokenizer driven as the tests drive it: lexer_init over a source,   *)
(* then lex calls.  Sources are concatenations of pieces.                  *)
(***************************************************************************)
MaxPieces == 2

MaxLen == 136

LongRun == 128

Pieces ==
    {keywords[i].name : i \in 1..Len(keywords)} \cup
    { <<"a">>, <<"_">>, <<"e">>, <<"e","l","i">>, <<"e","n","d","f","o">>,
      <<"e","n","d","f","o","r">>,
      <<"0">>, <<"1">>, <<"9">>, <<"f">>, <<"0","b">>, <<"0","o">>, <<"0","x">>,
      <<"'">>, <<"'","'">>, <<"'","'","'">>, <<"'","a">>, <<"'","'","'","a">>,
      <<"'","b","'","'","'">>, <<"'","'","b","'","'","'">>,
      <<" ">>, <<"\n">>, <<"#">>, <<"\\">>, <<"$">>, <<"+">>, <<"=">>, <<"!">>,
      <<"(">>,
      [i \in 1..LongRun |-> "a"] }

RECURSIVE Concat(_)
Concat(ps) == IF ps = <<>> THEN <<>> ELSE Head(ps) \o Concat(Tail(ps))

PieceSources(P, n) ==
    {s \in {Concat(ps) : ps \in UNION {[1..k -> P] : k \in 0..n}} : Len(s) <= MaxLen}

LexSources == PieceSources(Pieces, MaxPieces)

\* What the process image holds behind the input and behind a keyword.
Images ==
    { [after |-> <<>>, rodata |-> <<>>],
      [after |-> <<"'","'","'">>, rodata |-> <<"f","a","l","s","e">>],
      [after |-> <<"a","'","'","'">>, rodata |-> <<"e">>] }

NoResult == [status |-> "NONE"]

NoMachine == [signal |-> "NONE"]

Init ==
    /\ source \in LexSources
    /\ image \in Images
    /\ l = [lexer_init(source, image.after, image.rodata, 0, 0)
                EXCEPT !.nalloc = 0]
    /\ token = "NONE"
    /\ start = 0
    /\ result = NoResult
    /\ machine = NoMachine

\* lexer_init(&l, source); the buffer allocation may fail.
LexerInit ==
    /\ \E f \in {0, 1} :
          l' = [lexer_init(source, image.after, image.rodata, 0, f)
                    EXCEPT !.nalloc = 0, !.fail_at = 0]
    /\ token' = "NONE"
    /\ start' = 0
    /\ UNCHANGED <<source, image, result, machine>>

\* token = lex(&l); a realloc made by the call may fail.
\* The tokenizer and the token a lex call left.
Lexing(r) ==
    /\ l' = [r.l EXCEPT !.nalloc = 0, !.fail_at = 0]
    /\ token' = r.token

Lex ==
    /\ ~l.segv
    /\ \E f \in {0, 1} : Lexing(lex([l EXCEPT !.nalloc = 0, !.fail_at = f]))
    /\ start' = l.input_pos
    /\ UNCHANGED <<source, image, result, machine>>

Next == LexerInit \/ Lex

Spec == Init /\ [][Next]_vars

(***************************************************************************)
(* The sources parse is run over: ParserTests are the sources of the tests *)
(* of src/tests/test-parser.c, ParserExtras sources for the cases those    *)
(* leave out.                                                              *)
(***************************************************************************)
ParserTests == {
    <<"s","a","m","p","l","e">>,
    <<"s","a","m","p","l","e","1","2","3">>,
    <<"t","r","u","e">>,
    <<"f","a","l","s","e">>,
    <<"0">>,
    <<"1">>,
    <<"0","x","1","0">>,
    <<"0","o","1","0">>,
    <<"0","b","1","1">>,
    <<"'","'">>,
    <<"'"," ","'">>,
    <<"'","'","'"," ","'","'","'">>,
    <<"'","s","a","m","p","l","e","'">>,
    <<"[","]">>,
    <<"[","1","]">>,
    <<"[","1",",","]">>,
    <<"[","1",",","2",",","3","]">>,
    <<"[">>,
    <<"[",",","]">>,
    <<"[","1">>,
    <<"[","(",")">>,
    <<"{","}">>,
    <<"{","'","a","'",":","1","}">>,
    <<"{","'","a","'",":","1",",","}">>,
    <<"{">>,
    <<"{","(",")">>,
    <<"{",",","}">>,
    <<"{","'","a","'">>,
    <<"{","'","a","'",":">>,
    <<"{","'","a","'",":","1">>,
    <<"{","'","a","'",":","(",")">>,
    <<"(","0",")">>,
    <<"(","1">>,
    <<"(",")">>,
    <<"o",".","f">>,
    <<"o",".">>,
    <<"o",".","t","r","u","e">>,
    <<"o",".","f","a","l","s","e">>,
    <<"o",".","1","2","3">>,
    <<"o",".","[","]">>,
    <<"o",".","{","}">>,
    <<"a","[","0","]">>,
    <<"a","[","i","]">>,
    <<"o",".","a","[","0","]">>,
    <<"a","[","(",")">>,
    <<"a","[">>,
    <<"a","[","i">>,
    <<"f","(",")">>,
    <<"f","(","a",")">>,
    <<"f","(","a",",",")">>,
    <<"f","(","a",",","b",")">>,
    <<"f","(","a",":","1",")">>,
    <<"f","(","a",",","k",":","v",")">>,
    <<"o",".","f","(","x",")">>,
    <<"f","(">>,
    <<"f","(",",">>,
    <<"f","(","a">>,
    <<"f","(","1",":">>,
    <<"f","(","k",":">>,
    <<"f","(","k",":","(",")">>,
    <<"f","(","k",":","v">>,
    <<"f","(","k",":","v",","," ","l">>,
    <<"f","(","(",")">>,
    <<"+","1">>,
    <<"-","1">>,
    <<"n","o","t"," ","1">>,
    <<"-">>,
    <<"+">>,
    <<"n","o","t">>,
    <<"a"," ","*"," ","b">>,
    <<"a"," ","/"," ","b">>,
    <<"a"," ","%"," ","b">>,
    <<"a"," ","*">>,
    <<"a"," ","/">>,
    <<"a"," ","%">>,
    <<"a"," ","*"," ","(",")">>,
    <<"a"," ","+"," ","b">>,
    <<"a"," ","-"," ","b">>,
    <<"a"," ","+">>,
    <<"a"," ","-">>,
    <<"a"," ","+"," ","(",")">>,
    <<"a"," ","<"," ","b">>,
    <<"a"," ",">"," ","b">>,
    <<"a"," ","<","="," ","b">>,
    <<"a"," ",">","="," ","b">>,
    <<"a"," ","i","n"," ","b">>,
    <<"a"," ","n","o","t"," ","i","n"," ","b">>,
    <<"a"," ","<">>,
    <<"a"," ",">">>,
    <<"a"," ","<","=">>,
    <<"a"," ",">","=">>,
    <<"a"," ","i","n">>,
    <<"a"," ","n","o","t"," ","i","n">>,
    <<"a"," ","n","o","t">>,
    <<"a"," ","<"," ","(",")">>,
    <<"a"," ","=","="," ","b">>,
    <<"a"," ","!","="," ","b">>,
    <<"a"," ","=","=">>,
    <<"a"," ","!","=">>,
    <<"a"," ","=","="," ","(",")">>,
    <<"a"," ","a","n","d"," ","b">>,
    <<"a"," ","a","n","d">>,
    <<"a"," ","a","n","d"," ","(",")">>,
    <<"a"," ","o","r"," ","b">>,
    <<"a"," ","o","r">>,
    <<"a"," ","o","r"," ","(",")">>,
    <<"a"," ","?"," ","b"," ",":"," ","c">>,
    <<"a"," ","?">>,
    <<"a"," ","?"," ","b">>,
    <<"a"," ","?"," ","b"," ",":">>,
    <<"a"," ","?"," ","(",")">>,
    <<"a"," ","?"," ","b"," ",":"," ","(",")">>,
    <<"a"," ","="," ","b">>,
    <<"a"," ","+","="," ","b">>,
    <<"a"," ","-","="," ","b">>,
    <<"a"," ","*","="," ","b">>,
    <<"a"," ","/","="," ","b">>,
    <<"a"," ","%","="," ","b">>,
    <<"a"," ","=">>,
    <<"a"," ","+","=">>,
    <<"a"," ","-","=">>,
    <<"a"," ","*","=">>,
    <<"a"," ","/","=">>,
    <<"a"," ","%","=">>,
    <<"a"," ","="," ","(",")">>,
    <<"1"," ","="," ","a">>,
    <<>>,
    <<"a">>,
    <<"a"," ","b"," ","c">>,
    <<"a"," ","b"," ","="," ","(",")">>,
    <<"f","o","r","e","a","c","h"," ","x"," ",":"," ","x","s"," ","e","n","d","f","o","r","e","a","c","h">>,
    <<"f","o","r","e","a","c","h"," ","x",","," ","y",","," ","z"," ",":"," ","x","s"," ","e","n","d","f","o","r","e","a","c","h">>,
    <<"f","o","r","e","a","c","h"," ","x"," ",":"," ","x","s"," ","a"," ","b"," ","c"," ","e","n","d","f","o","r","e","a","c","h">>,
    <<"f","o","r","e","a","c","h"," ","x"," ",":"," ","x","s"," ","b","r","e","a","k"," ","e","n","d","f","o","r","e","a","c","h">>,
    <<"f","o","r","e","a","c","h"," ","x"," ",":"," ","x","s"," ","c","o","n","t","i","n","u","e"," ","e","n","d","f","o","r","e","a","c","h">>,
    <<"b","r","e","a","k">>,
    <<"c","o","n","t","i","n","u","e">>,
    <<"f","o","r","e","a","c","h">>,
    <<"f","o","r","e","a","c","h"," ","x">>,
    <<"f","o","r","e","a","c","h"," ","x",",">>,
    <<"f","o","r","e","a","c","h"," ","x"," ",":">>,
    <<"f","o","r","e","a","c","h"," ","x"," ",":"," ","x","s">>,
    <<"f","o","r","e","a","c","h"," ","x"," ",":"," ","(",")">>,
    <<"i","f"," ","a"," ","e","n","d","i","f">>,
    <<"i","f"," ","a"," ","1"," ","e","n","d","i","f">>,
    <<"i","f"," ","a"," ","1"," ","e","l","s","e"," ","2"," ","e","n","d","i","f">>,
    <<"i","f"," ","a"," ","1"," ","e","l","i","f"," ","b"," ","2"," ","e","l","s","e"," ","3"," ","e","n","d","i","f">>,
    <<"i","f">>,
    <<"i","f"," ","t","r","u","e">>,
    <<"i","f"," ","(",")">>,
    <<"i","f"," ","t","r","u","e"," ","(",")"," ","e","n","d","i","f">>
    }

ParserExtras == {
    <<"$">>,
    <<"a"," ","$">>,
    <<"!">>,
    <<"a"," ","!"," ","b">>,
    <<"'","a","b","c">>,
    <<"0","b","2">>,
    <<"a"," ","="," ","'","b">>,
    <<"a"," ",")">>,
    <<"a"," ","]">>,
    <<"*"," ","a">>,
    <<"a"," ","<"," ","b"," ","<"," ","c">>,
    <<"a"," ","="," ","b"," ","="," ","c">>,
    <<"a",".","b"," ","="," ","c">>,
    <<"a",".","b",".","c">>,
    <<"a",".","b","(","c",")","[","d","]">>,
    <<"f","(","a",")","(","b",")">>,
    <<"(","a",")",".","b">>,
    <<"(","a",")","(","b",")">>,
    <<"[","a","]","[","b","]">>,
    <<"a"," ","?"," ","b"," ",":"," ","c"," ","?"," ","d"," ",":"," ","e">>,
    <<"a"," ","+"," ","b"," ","*"," ","c">>,
    <<"a"," ","*"," ","b"," ","+"," ","c">>,
    <<"a"," ","-"," ","b"," ","-"," ","c">>,
    <<"a"," ","o","r"," ","b"," ","a","n","d"," ","c"," ","=","="," ","d">>,
    <<"n","o","t"," ","a"," ","a","n","d"," ","-","b">>,
    <<"a",".","(","b",")">>,
    <<"{","a",":","b",",","c",":","d","}">>,
    <<"[","[","a","]",",","{","}","]">>,
    <<"f","(","a",":","b",",","c",":","d",")">>,
    <<"f","(","a",":","b",",","c",")">>,
    <<"f","(","g","(","a",")",",","k",":","[","b","]",")">>,
    <<"i","f"," ","a"," ","b"," ","e","l","i","f"," ","c"," ","e","n","d","i","f">>,
    <<"i","f"," ","a"," ","i","f"," ","b"," ","e","n","d","i","f"," ","e","n","d","i","f">>,
    <<"i","f"," ","a"," ","e","l","s","e"," ","e","n","d","i","f">>,
    <<"f","o","r","e","a","c","h"," ","a"," ",":"," ","b"," ","i","f"," ","c"," ","b","r","e","a","k"," ","e","n","d","i","f"," ","e","n","d","f","o","r","e","a","c","h">>,
    <<"f","o","r","e","a","c","h"," ","a"," ",":"," ","b"," ","f","o","r","e","a","c","h"," ","c"," ",":"," ","d"," ","e","n","d","f","o","r","e","a","c","h"," ","e","n","d","f","o","r","e","a","c","h">>,
    <<"0","1","0">>,
    <<"0","x","1","f">>,
    <<"'","'","'","a">>,
    <<"e","n","d","f","o","r">>,
    <<"#"," ","c","\n","a">>,
    <<"a",".","b",".","1">>,
    <<"a"," ","?"," ","b"," ",":"," ","c"," ",":"," ","d">>,
    <<"i","f"," ","a"," ","b"," ","e","l","i","f">>,
    <<"x"," ","="," ","f","(","a",")","[","b","]",".","c"," ","a","n","d"," ","{","d",":"," ","-","e","}">>,
    <<"f","(","a",")","[","b","]","(","c",")",".","d">>,
    <<"a",".","b",".","c",".","d">>,
    <<"[","a",","," ","[","b",","," ","{","c",":"," ","d",","," ","e",":"," ","[","f","]","}","]",","," ","g","(","h",","," ","i",":"," ","j",")","]">>,
    <<"i","f"," ","a"," ","b"," ","e","l","i","f"," ","c"," ","d"," ","e","l","i","f"," ","e"," ","f"," ","e","l","s","e"," ","g"," ","e","n","d","i","f">>,
    <<"i","f"," ","a"," ","e","l","i","f">>,
    <<"i","f"," ","a"," ","b"," ","e","l","s","e"," ","c">>,
    <<"i","f"," ","a"," ","b"," ","e","l","s","e"," ","c"," ","d"," ","e","n","d","i","f"," ","e">>,
    <<"f","o","r","e","a","c","h"," ","a",","," ","b"," ",":"," ","c"," ","d"," ","e"," ","e","n","d","f","o","r","e","a","c","h"," ","f">>,
    <<"f","o","r","e","a","c","h"," ","a"," ","b">>,
    <<"f","o","r","e","a","c","h"," ","a"," ",":"," ","b"," ","c">>,
    <<"f","o","r","e","a","c","h"," ",":"," ","b"," ","e","n","d","f","o","r","e","a","c","h">>,
    <<"f","o","r","e","a","c","h"," ","a",",",","," ","b"," ",":"," ","c"," ","e","n","d","f","o","r","e","a","c","h">>,
    <<"b","r","e","a","k"," ","c","o","n","t","i","n","u","e">>,
    <<"a"," ","="," ","b"," ","?"," ","c"," ",":"," ","d">>,
    <<"a"," ","?"," ","b"," ","="," ","c"," ",":"," ","d">>,
    <<"a"," ","+","="," ","b"," ","-","="," ","c">>,
    <<"n","o","t"," ","n","o","t"," ","a">>,
    <<"-"," ","-"," ","a">>,
    <<"+"," ","-","a">>,
    <<"n","o","t"," ","a"," ","i","n"," ","b">>,
    <<"a"," ","n","o","t"," ","b">>,
    <<"a"," ","n","o","t"," ","i","n"," ","b"," ","n","o","t"," ","i","n"," ","c">>,
    <<"a"," ","i","n"," ","n","o","t"," ","b">>,
    <<"a"," ","=","="," ","b"," ","!","="," ","c">>,
    <<"a"," ","a","n","d"," ","b"," ","a","n","d"," ","c"," ","o","r"," ","d"," ","o","r"," ","e">>,
    <<"a"," ","o","r"," ","b"," ","?"," ","c"," ",":"," ","d">>,
    <<"a"," ","?"," ","b"," ","?"," ","c"," ",":"," ","d"," ",":"," ","e">>,
    <<"(","a"," ","?"," ","b"," ",":"," ","c",")">>,
    <<"(","a"," ","="," ","b",")">>,
    <<"(","(","(","(","a",")",")",")",")">>,
    <<"(","(","a",")">>,
    <<"[","a"," ","b","]">>,
    <<"[","a",",",",","b","]">>,
    <<"{","a","}">>,
    <<"{","a",":","}">>,
    <<"{","a",":","b"," ","c",":","d","}">>,
    <<"{","a",":","b",",",",","}">>,
    <<"{",":","b","}">>,
    <<"f","(","a"," ","b",")">>,
    <<"f","(","a",":",")">>,
    <<"f","(","a",":","b",":","c",")">>,
    <<"f","(","a",":","b",","," ","c",","," ","d",":","e",")">>,
    <<"f","(","1",":","2",")">>,
    <<"f","(","a",".","b",":","c",")">>,
    <<"f","(",",",")">>,
    <<"f","(","a",",",",",")">>,
    <<"a",".">>,
    <<"a",".","1">>,
    <<"a",".","'","b","'">>,
    <<"a",".","b",".">>,
    <<"a","[","b">>,
    <<"a","[","b"," ","c","]">>,
    <<"a","[","]">>,
    <<"a","[","b","]","[","c","]","[","d","]">>,
    <<"a","(","b",")","(","c",")","(","d",")">>,
    <<"'","a","'"," ","'","b","'">>,
    <<"'","'","'","a","'","'","'"," ","+"," ","'","b","'">>,
    <<"'","a","'",".","b","(","'","c","'",")">>,
    <<"1"," ","2"," ","3">>,
    <<"1"," ","+"," ","2"," ","*"," ","3"," ","-"," ","4"," ","/"," ","5"," ","%"," ","6">>,
    <<"1",".","2">>,
    <<"0","x">>,
    <<"0","b">>,
    <<"0","o","9">>,
    <<"9","2","2","3","3","7","2","0","3","6","8","5","4","7","7","5","8","0","7">>,
    <<"9","2","2","3","3","7","2","0","3","6","8","5","4","7","7","5","8","0","8">>,
    <<"9","9","9","9","9","9","9","9","9","9","9","9","9","9","9","9","9","9","9","9","9","9","9">>,
    <<"0","x","f","f","f","f","f","f","f","f","f","f","f","f","f","f","f","f">>,
    <<"0","x","7","f","f","f","f","f","f","f","f","f","f","f","f","f","f","f">>,
    <<"0","b","1","1","1","1","1","1","1","1","1","1","1","1","1","1","1","1","1","1","1","1","1","1","1","1","1","1","1","1","1","1","1","1","1","1","1","1","1","1","1","1","1","1","1","1","1","1","1","1","1","1","1","1","1","1","1","1","1","1","1","1","1","1","1">>,
    <<"0","o","7","7","7","7","7","7","7","7","7","7","7","7","7","7","7","7","7","7","7","7","7">>,
    <<"0","0","0","0","0","0","0","0","0","0","0","0","0","0","0","0","0","0","0","0","0","0","0","0","0","0","0","0","0","0","0","0","0","0","0","0","0","0","0","0","0","0","0","0","0","0","0","0","0","0","0","0","0","0","0","0","0","0","0","0","0","0","0","0","0","0","0","0","0","0","0","0","1","2">>,
    <<"a"," ","$"," ","b">>,
    <<"a"," ","="," ","$">>,
    <<"f","(","$",")">>,
    <<"[","$","]">>,
    <<"{","$",":","a","}">>,
    <<"{","a",":","$","}">>,
    <<"i","f"," ","$"," ","e","n","d","i","f">>,
    <<"f","o","r","e","a","c","h"," ","a"," ",":"," ","$"," ","e","n","d","f","o","r","e","a","c","h">>,
    <<"a"," ","+"," ","$">>,
    <<"a",".","$">>,
    <<"$"," ","$">>,
    <<"!"," ","a">>,
    <<"a"," ","!">>,
    <<"a"," ","!","="," ","'","b">>,
    <<"'","a","\n","b","'">>,
    <<"'","a","\\","\\","'","b","'">>,
    <<"'","u","n","t","e","r","m","i","n","a","t","e","d">>,
    <<"'","'","'","u","n","t","e","r","m","i","n","a","t","e","d">>,
    <<"a"," ","#"," ","c","o","m","m","e","n","t">>,
    <<"#"," ","o","n","l","y"," ","c","o","m","m","e","n","t">>,
    <<"a"," ","\\">>,
    <<"b">>,
    <<"t","r","u","e"," ","f","a","l","s","e">>,
    <<"t","r","u","e"," ","="," ","f","a","l","s","e">>,
    <<"t","r","u","e",".","f","a","l","s","e">>,
    <<"t","r","u","e","(","f","a","l","s","e",")">>,
    <<"t","r","u","e","[","f","a","l","s","e","]">>,
    <<"i","f"," ","t","r","u","e"," ","f","a","l","s","e"," ","e","n","d","i","f">>,
    <<"e","l","i","f">>,
    <<"e","l","s","e">>,
    <<"e","n","d","i","f">>,
    <<"e","n","d","f","o","r","e","a","c","h">>,
    <<"i","n">>,
    <<"a","n","d">>,
    <<"o","r"," ","a">>,
    <<"a"," ",")"," ","b">>,
    <<"a"," ","]"," ","b">>,
    <<"a"," ","}"," ","b">>,
    <<"a"," ",":"," ","b">>,
    <<"a"," ",","," ","b">>,
    <<"a"," ",";"," ","b">>,
    <<")">>,
    <<"?">>,
    <<":">>,
    <<"a"," ","?"," ",":"," ","b">>,
    <<".">>,
    <<".","a">>,
    <<"=">>,
    <<"="," ","a">>,
    <<"a"," ","="," ","="," ","b">>,
    <<"<"," ","a">>,
    <<"=","="," ","a">>,
    <<"*"," ","*"," ","a">>,
    <<"a"," ","*"," ","*"," ","b">>,
    <<"a"," ","*"," ","/"," ","b">>,
    <<"a"," ","+"," ","*"," ","b">>,
    <<"i","f"," ","i","f"," ","a"," ","e","n","d","i","f"," ","e","n","d","i","f">>,
    <<"i","f"," ","a"," ","e","n","d","i","f"," ","e","n","d","i","f">>,
    <<"i","f"," ","a"," ","f","o","r","e","a","c","h"," ","b"," ",":"," ","c"," ","e","n","d","f","o","r","e","a","c","h"," ","e","n","d","i","f">>,
    <<"f","o","r","e","a","c","h"," ","a"," ",":"," ","b"," ","i","f"," ","c"," ","e","n","d","i","f"," ","e","n","d","f","o","r","e","a","c","h">>,
    <<"f","o","r","e","a","c","h"," ","a"," ",":"," ","b"," ","f","o","r","e","a","c","h"," ","c"," ",":"," ","d"," ","b","r","e","a","k"," ","e","n","d","f","o","r","e","a","c","h"," ","c","o","n","t","i","n","u","e"," ","e","n","d","f","o","r","e","a","c","h">>,
    <<"f","o","r","e","a","c","h"," ","a"," ",":"," ","b"," ","="," ","c"," ","e","n","d","f","o","r","e","a","c","h">>,
    <<"f","o","r","e","a","c","h"," ","a",".","b"," ",":"," ","c"," ","e","n","d","f","o","r","e","a","c","h">>,
    <<"f","o","r","e","a","c","h"," ","1"," ",":"," ","c"," ","e","n","d","f","o","r","e","a","c","h">>,
    <<"f","o","r","e","a","c","h"," ","a"," ",":"," ","b"," ",":"," ","c"," ","e","n","d","f","o","r","e","a","c","h">>,
    <<"i","f","f">>,
    <<"i","f","a">>,
    <<"e","l","s","e","e">>,
    <<"e","l","i","f","x">>,
    <<"f","a","l","s","e","y">>,
    <<"e","n","d","f","o","r","e","a","c","h","x">>,
    <<"i","n","_">>,
    <<"[","a",","," ","b">>,
    <<"[","a",","," ","b",","," ","c"," ","d","]">>,
    <<"f","(","a",","," ","b">>,
    <<"f","(","a",","," ","b",","," ","c",":","d",","," ","e",":","f">>,
    <<"f","(","a",":","b",","," ","c",":","d"," ","e",")">>,
    <<"{","a",":","b",","," ","c",":","d">>,
    <<"{","a",":","b",","," ","c",":","d",","," ","e","}">>,
    <<"a"," ","b"," ","c"," ","="," ","(",")">>,
    <<"a"," ","b"," ","c"," ","d"," ","="," ","'","e">>,
    <<"f","o","r","e","a","c","h"," ","a",","," ","b"," ","c">>,
    <<"f","o","r","e","a","c","h"," ","a",","," ","b",","," ","c"," ",":"," ","d"," ","e"," ","f"," ","g">>,
    <<"i","f"," ","a"," ","b"," ","e","l","i","f"," ","c"," ","d"," ","e","l","i","f">>,
    <<"i","f"," ","a"," ","b"," ","c"," ","e","l","i","f"," ","d"," ","e"," ","f"," ","e","l","s","e"," ","g"," ","h">>,
    <<"x"," ","="," ","f","(","'","s","'",","," ","1","2",")">>,
    <<"a"," ","'","b","'"," ","3"," ","c">>,
    <<"(","a",")","[","0","]">>,
    <<"[","1",",","2",",","3","]","[","0","]">>,
    <<"{","a",":","b","}",".","c">>,
    <<"'","s","'",".","f">>,
    <<"1","(","2",")">>,
    <<"(","a"," ","+"," ","b",")","(","c",")">>,
    <<"(","a"," ","+"," ","b",")",".","c">>,
    <<"(","1",")","[","0","]">>,
    <<"t","r","u","e",".","a">>,
    <<"o",".","x",".","x">>,
    <<"o",".","x","(","y",")">>,
    <<"o",".","x","[","0","]">>,
    <<"o","(","y",")",".","x">>,
    <<"o","(","y",")","(","y",")">>,
    <<"o","(","y",")","[","0","]">>,
    <<"o","[","0","]",".","x">>,
    <<"o","[","0","]","(","y",")">>,
    <<"o","[","0","]","[","0","]">>,
    <<"o",".","x","(","y",")","[","0","]">>,
    <<"o",".","x","[","0","]","(","y",")">>,
    <<"o","(","y",")",".","x","[","0","]">>,
    <<"o","(","y",")","[","0","]",".","x">>,
    <<"o","[","0","]",".","x","(","y",")">>,
    <<"o","[","0","]","(","y",")",".","x">>,
    <<"a",".","'","s","'">>,
    <<"a",".","t","r","u","e">>,
    <<"a",".","i","f">>,
    <<"a",".","[","b","]">>,
    <<"a",".","{","b",":","c","}">>,
    <<"a",".","(","b"," ","+"," ","c",")">>,
    <<"a",".","b">>,
    <<"f","(","'","s","'",":","x",")">>,
    <<"f","(","[","a","]",":","b",")">>,
    <<"a"," ","b"," ",")"," ","c">>,
    <<"i","f"," ","a"," ","i","f"," ","b"," ","e","n","d","i","f">>,
    <<"i","f"," ","a"," ","i","f"," ","e","n","d","i","f"," ","e","n","d","i","f">>,
    <<"i","f"," ","e","n","d","i","f">>,
    <<"i","f"," ","a"," ","1"," ","e","l","i","f"," ","b"," ","e","n","d","i","f">>,
    <<"i","f"," ","a"," ","e","l","i","f"," ","b"," ","e","l","s","e"," ","e","n","d","i","f">>,
    <<"[","a",","," ","b",","," ","c",",","]">>,
    <<"{","a",":","b",","," ","c",":","d",",","}">>,
    <<"[","1",",",",","]">>,
    <<"-"," ","(",")">>,
    <<"n","o","t"," ","(",")">>,
    <<"0","0","7">>,
    <<"0","x","f","f">>,
    <<"0","o","7","7","7">>,
    <<"0","b","1","0","1">>,
    <<"0","0">>,
    <<"0","x","A","b","C">>,
    <<"1","2","3","4","5","6","7","8","9","0">>,
    <<"0","x","1","0"," ","0","o","1","0"," ","0","b","1","1"," ","0","1","0">>,
    <<"a"," ","e","n","d","i","f">>,
    <<"a"," ","e","l","s","e">>,
    <<"a"," ",":">>,
    <<"a"," ",",">>,
    <<"/"," ","a">>,
    <<"a","n","d"," ","a">>,
    <<"i","n"," ","a">>,
    <<"?"," ","a"," ",":"," ","b">>,
    <<"a"," ","="," ","*"," ","b">>,
    <<"f","(","*"," ","a",")">>,
    <<"%"," ","a">>,
    <<"!","="," ","a">>,
    <<"a"," ","=","="," ","b"," ","=","="," ","c">>
    }
(***************************************************************************)
(* parse(), run over a source.  One allocation call of a run may fail:     *)
(* an action hands the allocator the number, within the action, of the     *)
(* call that fails (0: none), and oom records that a call has failed.      *)
(***************************************************************************)
MaxFault == 5

\* memset(&p, 0, sizeof(p)); lexer_init(&p.lexer, source);
parse_init(input, img, fail_at) ==
    [p |-> [lexer |-> lexer_init(input, img.after, img.rodata, 0, fail_at),
            token |-> "TOKEN_INVALID", ready |-> FALSE],
     heap |-> <<>>,
     stack |-> <<frame("parse")>>,
     res |-> [status |-> "FAILURE", ast |-> NULL, error |-> NULL_STRING],
     ret |-> "-1", ptr |-> NULL, str |-> NULL_STRING,
     signal |-> "NONE", oom |-> FALSE, nomem |-> "NONE",
     lexed |-> 0, accepted |-> <<>>]

\* lexer_free: mem_free clears lexeme_max bytes of the lexeme buffer.  The
\* buffer is NULL when its allocation failed, and shorter than lexeme_max
\* when a growth failed (grow doubles lexeme_max before it calls realloc):
\* then the memset writes behind the buffer, with the given outcome.
lexer_free(m, overflow) ==
    IF m.p.lexer.lexeme_null THEN raise(m, "SIGSEGV")
    ELSE IF m.p.lexer.error THEN raise(m, overflow)
    ELSE m

\* The struct parse_result parse returns for res.
parse_result(res) ==
    CASE res.status = "SUCCESS" ->
            [status |-> "RETURNED", success |-> TRUE, ast |-> res.ast,
             error |-> NULL_STRING]
      [] res.status = "FAILURE" ->
            [status |-> "RETURNED", success |-> FALSE, ast |-> NULL,
             error |-> res.error]
      [] res.status = "NO_MEMORY" ->
            [status |-> "RETURNED", success |-> FALSE, ast |-> NULL,
             error |-> string_from_buf("not enough memory")]

\* parse: res = sequence(&p); lexer_free(&p.lexer); assert(res.ast != NULL)
\* on success.
parse(m, overflow) ==
    LET freed(f) ==
            IF f.res.status = "SUCCESS" /\ f.res.ast = NULL
            THEN return(raise(f, "SIGABRT"))
            ELSE return(f)
    IN  CASE top(m).at = "entry" -> call(m, "return", "sequence")
          [] top(m).at = "return" -> freed(lexer_free(m, overflow))

\* One stretch of the production on top of the stack.
step(m) ==
    CASE top(m).fn = "dictionary" -> dictionary(m)
      [] top(m).fn = "array" -> array(m)
      [] top(m).fn = "literal" -> literal(m)
      [] top(m).fn = "primary" -> primary(m)
      [] top(m).fn = "subscript" -> subscript(m)
      [] top(m).fn = "application" -> application(m)
      [] top(m).fn = "postfix" -> postfix(m)
      [] top(m).fn = "unary" -> unary(m)
      [] top(m).fn = "multiplicative" -> multiplicative(m)
      [] top(m).fn = "additive" -> additive(m)
      [] top(m).fn = "relational" -> relational(m)
      [] top(m).fn = "equality" -> equality(m)
      [] top(m).fn = "logical_and" -> logical_and(m)
      [] top(m).fn = "logical_or" -> logical_or(m)
      [] top(m).fn = "conditional" -> conditional(m)
      [] top(m).fn = "assignment" -> assignment(m)
      [] top(m).fn = "expression" -> expression(m)
      [] top(m).fn = "iteration" -> iteration(m)
      [] top(m).fn = "selection" -> selection(m)
      [] top(m).fn = "statement" -> statement(m)
      [] top(m).fn = "sequence" -> sequence(m)
      [] top(m).fn = "parse" -> parse(m, "NONE")

\* The allocator for one action: its call number f fails.
fault(m, f) == [m EXCEPT !.p.lexer.nalloc = 0,
                         !.p.lexer.fail_at = IF m.oom THEN 0 ELSE f]

settle(n) == [n EXCEPT !.p.lexer.nalloc = 0, !.p.lexer.fail_at = 0,
                       !.oom = @ \/ (n.p.lexer.fail_at # 0 /\
                                     n.p.lexer.nalloc >= n.p.lexer.fail_at)]

\* The binary operators: as written, the subtype of the node, and the
\* production that accepts the operator (1 logical_or, 2 logical_and,
\* 3 equality, 4 relational, 5 additive, 6 multiplicative).
BinaryOperators ==
    {[text |-> <<"o","r">>, sub |-> "AST_OR", level |-> 1],
     [text |-> <<"a","n","d">>, sub |-> "AST_AND", level |-> 2],
     [text |-> <<"=","=">>, sub |-> "AST_EQ", level |-> 3],
     [text |-> <<"!","=">>, sub |-> "AST_NE", level |-> 3],
     [text |-> <<"<">>, sub |-> "AST_LT", level |-> 4],
     [text |-> <<"<","=">>, sub |-> "AST_LE", level |-> 4],
     [text |-> <<">">>, sub |-> "AST_GT", level |-> 4],
     [text |-> <<">","=">>, sub |-> "AST_GE", level |-> 4],
     [text |-> <<"i","n">>, sub |-> "AST_IN", level |-> 4],
     [text |-> <<"n","o","t"," ","i","n">>, sub |-> "AST_NOT_IN", level |-> 4],
     [text |-> <<"+">>, sub |-> "AST_ADD", level |-> 5],
     [text |-> <<"-">>, sub |-> "AST_SUB", level |-> 5],
     [text |-> <<"*">>, sub |-> "AST_MUL", level |-> 6],
     [text |-> <<"/">>, sub |-> "AST_DIV", level |-> 6],
     [text |-> <<"%">>, sub |-> "AST_MOD", level |-> 6]}

\* The productions that accept operators in a loop; equality and
\* relational accept one operator.
ChainLevels == {1, 2, 5, 6}

\* The source a o1 b o2 c.
Chain(o1, o2) ==
    <<"a", " ">> \o o1.text \o <<" ", "b", " ">> \o o2.text \o <<" ", "c">>

ChainSources == {Chain(o1, o2) : o1, o2 \in BinaryOperators}

\* Operands, and the source p ? c : a.
Operands == {<<"a">>, <<"1">>, <<"b", " ", "+", " ", "c">>}

TernaryText(p, c, a) == p \o <<" ", "?", " ">> \o c \o <<" ", ":", " ">> \o a

\* A ternary as the alt of a ternary, as the conseq of a ternary, and
\* assignments as conseq and alt.
TernarySources ==
    {TernaryText(x, y, TernaryText(y, x, x)) : x, y \in Operands} \cup
    {TernaryText(x, TernaryText(y, x, y), y) : x, y \in Operands} \cup
    {TernaryText(x, <<"b", " ", "=", " ">> \o y, <<"c", " ", "+", "=", " ">> \o x) :
        x, y \in Operands}

\* The argument lists of up to MaxArgs arguments, each positional or in
\* keyword form, and the source f(...) of a list: the i-th argument is the
\* i-th of a, b, ... when positional and of k:v, l:w, ... when in keyword
\* form.
MaxArgs == 3

Arguments == UNION {[1..n -> {"positional", "keyword"}] : n \in 1..MaxArgs}

ArgumentText(kinds) ==
    LET names == <<"a", "b", "c", "d", "e">>
        keys == <<"k", "l", "m", "n", "o">>
        values == <<"v", "w", "x", "y", "z">>
        arg(i) == IF kinds[i] = "positional" THEN <<names[i]>>
                  ELSE <<keys[i], ":", values[i]>>
        RECURSIVE args(_)
        args(n) == IF n = 1 THEN arg(1)
                   ELSE args(n - 1) \o <<",", " ">> \o arg(n)
    IN  <<"f", "(">> \o args(Len(kinds)) \o <<")">>

ApplicationSources == {ArgumentText(kinds) : kinds \in Arguments}

ParseSources ==
    ParserTests \cup ParserExtras \cup ChainSources \cup TernarySources \cup
    ApplicationSources \cup
    {[i \in 1..LongRun |-> "a"]}

ParseInit ==
    /\ source \in ParseSources
    /\ image \in Images
    /\ \E f \in {0, 1} :
          machine = settle(parse_init(source, image, f))
    /\ l = lexer_init(<<>>, <<>>, <<>>, 0, 0)
    /\ token = "NONE"
    /\ start = 0
    /\ result = NoResult

Running ==
    /\ machine.signal = "NONE"
    /\ result = NoResult
    /\ machine.stack # <<>>

\* The next stretch of the production that is running.
ParseStep ==
    /\ Running
    /\ ~(top(machine).fn = "parse" /\ top(machine).at = "return")
    /\ \E f \in 0..MaxFault : machine' = settle(step(fault(machine, f)))
    /\ UNCHANGED <<source, image, l, token, start, result>>

\* parse returns.
ParseReturn ==
    /\ Running
    /\ top(machine).fn = "parse" /\ top(machine).at = "return"
    /\ \E overflow \in {"NONE", "SIGSEGV", "SIGABRT"} :
          /\ machine' = parse(machine, overflow)
          /\ result' = IF machine'.signal = "NONE"
                       THEN parse_result(machine.res) ELSE NoResult
    /\ UNCHANGED <<source, image, l, token, start>>

ParseNext == ParseStep \/ ParseReturn

ParseSpec == ParseInit /\ [][ParseNext]_vars

(***************************************************************************)
(* Properties of parse, stated over the machine when the call has          *)
(* returned: result is the struct parse_result, machine.heap every cell    *)
(* the call allocated.                                                     *)
(***************************************************************************)
Returned == result.status = "RETURNED"

\* The AST nodes among the cells.
Nodes(m) == {i \in 1..Len(m.heap) : m.heap[i].type # "string_data"}

\* The nodes a node points to, in the order of its fields and lists.
Children(m, i) ==
    LET s == m.heap[i]
        all == CASE s.type = "AST_SEQUENCE" -> s.exps
                 [] s.type = "AST_LOGICAL" /\ s.subtype = "AST_TERNARY" ->
                       <<s.pred, s.conseq, s.alt>>
                 [] s.type \in {"AST_ASSIGNMENT", "AST_LOGICAL",
                                "AST_ARITHMETIC", "AST_RELATIONAL"} ->
                       <<s.lhs, s.rhs>>
                 [] s.type = "AST_IF" -> s.clauses \o <<s.alt>>
                 [] s.type = "AST_IF_CLAUSE" -> <<s.pred, s.conseq>>
                 [] s.type = "AST_FOREACH" -> s.ids \o <<s.exp, s.body>>
                 [] s.type = "AST_UNARY" -> <<s.exp>>
                 [] s.type = "AST_INDEX" -> <<s.ref, s.index>>
                 [] s.type = "AST_MEMBER" -> <<s.obj, s.field>>
                 [] s.type = "AST_APPLICATION" ->
                       <<s.ref>> \o s.args \o s.kw_args
                 [] s.type = "AST_KEYWORD_ARG" -> <<s.id, s.exp>>
                 [] s.type = "AST_ARRAY" -> s.elts
                 [] s.type = "AST_DICTIONARY" -> s.map
                 [] s.type = "AST_KV" -> <<s.key, s.value>>
                 [] OTHER -> <<>>
        present(q) == q # NULL
    IN  SelectSeq(all, present)

\* The nodes of the tree below (and with) node i.
RECURSIVE Reach(_, _)
Reach(m, i) ==
    {i} \cup UNION {Reach(m, Children(m, i)[j]) : j \in DOMAIN Children(m, i)}

\* The number of fields and list entries of the nodes of R that point to i.
Owners(m, R, i) ==
    Cardinality({pj \in UNION {{<<p, j>> : j \in DOMAIN Children(m, p)} :
                               p \in R} :
                    Children(m, pj[1])[pj[2]] = i})

\* The text of the message of a failure.
Message == string_text(machine, result.error)

\* The messages of the grammar rules.
Expectations ==
    {w[1] \o ": expected " \o w[2] :
        w \in {<<"dictionary", "opening brace">>, <<"dictionary", "key">>,
               <<"dictionary", "colon">>, <<"dictionary", "value">>,
               <<"dictionary", "closing brace">>,
               <<"array", "opening bracket">>, <<"array", "expression">>,
               <<"array", "closing bracket">>,
               <<"literal", "string literal">>,
               <<"literal", "integer constant">>,
               <<"literal", "boolean value">>,
               <<"subscript", "opening bracket">>,
               <<"subscript", "expression">>,
               <<"subscript", "closing bracket">>,
               <<"application", "opening paren">>,
               <<"application", "argument">>, <<"application", "keyword">>,
               <<"application", "kwarg name">>,
               <<"application", "kwarg value">>,
               <<"application", "closing paren">>,
               <<"unary", "expression">>, <<"multiplicative", "expression">>,
               <<"additive", "expression">>, <<"relational", "expression">>,
               <<"equality", "expression">>, <<"logical and", "expression">>,
               <<"logical or", "expression">>, <<"ternary", "true clause">>,
               <<"ternary", "colon">>, <<"ternary", "false clause">>,
               <<"assignment", "expression">>,
               <<"foreach", "`foreach' keyword">>,
               <<"foreach", "identifier">>, <<"foreach", "colon">>,
               <<"foreach", "expression">>, <<"foreach", "endforeach">>,
               <<"if", "`if' keyword">>, <<"if", "predicate">>,
               <<"if", "endif">>}} \cup
    {"invalid expression", "expected closing paren", "expected field name",
     "field name must be plain id", "expected `in' after `not'",
     "assignment target must be an id"}

\* C1: parse returns either success with a non-null root node or failure
\* with a non-null error message, and when an allocation of the call has
\* failed (a node, the text of an Identifier or String node, a growth of the
\* lexeme buffer, the copy of the error message) it returns the failure whose
\* message is "not enough memory".
C1_ResultOrNotEnoughMemory ==
    Returned =>
        /\ IF result.success THEN result.ast # NULL ELSE result.error.valid
        /\ machine.oom =>
              /\ ~result.success
              /\ result.error.valid
              /\ Message = "not enough memory"

\* The tokenizer has reported a lexical error: the lookahead is TOKEN_ERROR
\* or TOKEN_INVALID, which no rule accepts, and no allocation failed.
LexicalError ==
    /\ ~machine.oom
    /\ machine.p.ready
    /\ machine.p.token \in {"TOKEN_ERROR", "TOKEN_INVALID"}

\* C2: when the tokenizer has reported a lexical error for a token of the
\* source, parse returns a failure whose message is the message of a grammar
\* rule: no such source is parsed successfully.
C2_LexicalErrorFails ==
    (Returned /\ LexicalError) =>
        /\ ~result.success
        /\ result.error.valid
        /\ Message \in Expectations

\* C3: when no allocation fails, no assertion on a node ends the call, and
\* when parse has returned every node allocated during the call has been
\* freed exactly once or, on success, has not been freed, is in the tree of
\* the returned root and is held by exactly one field or list entry of that
\* tree (the root by none); no node is linked into two lists.
C3_NodesFreedOrOwned ==
    ~machine.oom =>
        /\ machine.signal # "SIGABRT"
        /\ Returned =>
              LET R == IF result.success THEN Reach(machine, result.ast)
                       ELSE {}
              IN  \A i \in Nodes(machine) :
                     /\ machine.heap[i].freed = IF i \in R THEN 0 ELSE 1
                     /\ machine.heap[i].node <= 1
                     /\ i \in R =>
                           Owners(machine, R, i) =
                               IF i = result.ast THEN 0 ELSE 1

\* C3's case: a dictionary that holds two key/value pairs has failed (no
\* allocation did), and parse has returned the failure.
C3_Witness ==
    /\ Returned
    /\ ~machine.oom
    /\ ~result.success
    /\ \E i \in Nodes(machine) :
          /\ machine.heap[i].type = "AST_DICTIONARY"
          /\ Len(machine.heap[i].map) >= 2

\* The allocation of a node has failed.
NodeAllocationFailed == machine.nomem \notin {"NONE", "string_data"}

\* C4: when the allocation of a node has failed, every node allocated
\* earlier in the call has been freed exactly once when parse returns.
C4_FreedOnNodeFailure ==
    (Returned /\ NodeAllocationFailed) =>
        \A i \in Nodes(machine) : machine.heap[i].freed = 1

\* C4, for every node but a Member: when the allocation of a node of
\* another type has failed, every node allocated earlier has been freed
\* exactly once when parse returns.
C4_FreedUnlessMember ==
    (Returned /\ NodeAllocationFailed /\ machine.nomem # "AST_MEMBER") =>
        \A i \in Nodes(machine) : machine.heap[i].freed = 1

\* A step of the parser that accepts no token.
NothingAccepted == machine'.accepted = machine.accepted

\* C11: the parser holds one token of lookahead.  lex has been called once
\* for each accepted token and once more when a lookahead is held; a step
\* that starts with a lookahead and accepts nothing, however often it peeks
\* or fails to accept, ends with the same lookahead and has neither called
\* lex nor moved the tokenizer; and when parse returns a tree the last token
\* lexed is held, not accepted.
C11_OneTokenLookahead ==
    /\ [](machine.lexed = Len(machine.accepted) +
                              IF machine.p.ready THEN 1 ELSE 0)
    /\ []((Returned /\ result.success) => machine.p.ready)
    /\ [][(machine.p.ready /\ NothingAccepted) =>
             /\ machine'.p.ready
             /\ machine'.p.token = machine.p.token
             /\ machine'.lexed = machine.lexed
             /\ machine'.p.lexer.input_pos = machine.p.lexer.input_pos]_vars

\* C11's case: parse has returned a tree for a source of five tokens and
\* more, the last token lexed (the end of the input) still held.
C11_Witness ==
    /\ Returned
    /\ result.success
    /\ Len(machine.accepted) >= 5
    /\ machine.p.ready
    /\ machine.p.token = "TOKEN_END"

\* The tokens whose lexeme becomes the text or the value of a node.
LexemeTokens == {"TOKEN_IDENTIFIER", "TOKEN_STRING", "TOKEN_MULTILINE_STRING",
                 "TOKEN_BIN_NUMBER", "TOKEN_OCT_NUMBER", "TOKEN_DEC_NUMBER",
                 "TOKEN_HEX_NUMBER"}

\* The accepted identifier, string and number tokens, in order of
\* acceptance, and the Identifier, String and Number nodes, in order of
\* allocation.
LexemeAccepts(m) ==
    SelectSeq(m.accepted, LAMBDA a : a.token \in LexemeTokens)

LexemeNodes(m) ==
    SelectSeq(m.heap,
              LAMBDA c : c.type \in {"AST_ID", "AST_STRING", "AST_NUMBER"})

\* The node c holds the lexeme of the accepted token a: an Identifier or a
\* String a copy of its text, a Number its value in the base of the token.
HoldsLexeme(m, c, a) ==
    CASE a.token = "TOKEN_IDENTIFIER" ->
            /\ c.type = "AST_ID"
            /\ c.name.valid
            /\ string_text(m, c.name) = c_str(a.lexeme)
      [] a.token \in {"TOKEN_STRING", "TOKEN_MULTILINE_STRING"} ->
            /\ c.type = "AST_STRING"
            /\ c.value.valid
            /\ string_text(m, c.value) = c_str(a.lexeme)
      [] OTHER ->
            /\ c.type = "AST_NUMBER"
            /\ c.value = strtoll(a.lexeme,
                                 CASE a.token = "TOKEN_BIN_NUMBER" -> 2
                                   [] a.token = "TOKEN_OCT_NUMBER" -> 8
                                   [] a.token = "TOKEN_HEX_NUMBER" -> 16
                                   [] OTHER -> 10)

\* C12: the lexeme of an accepted identifier, string or number token is read
\* before lex is called again.  While no allocation has failed, the
\* Identifier, String and Number nodes allocated so far are, in order, one
\* for each identifier, string and number token accepted so far, and each
\* holds the lexeme its token had when it was accepted: the text for an
\* Identifier or a String, the value for a Number.
C12_LexemeOfAcceptedToken ==
    ~machine.oom =>
        /\ Len(LexemeNodes(machine)) = Len(LexemeAccepts(machine))
        /\ \A i \in 1..Len(LexemeNodes(machine)) :
              HoldsLexeme(machine, LexemeNodes(machine)[i],
                          LexemeAccepts(machine)[i])

\* C12's case: a tree is returned for a source in which an identifier, a
\* string and a number were accepted, each before a later token with
\* another lexeme.
C12_Witness ==
    /\ Returned
    /\ result.success
    /\ ~machine.oom
    /\ \E i, j, k \in 1..Len(LexemeAccepts(machine)) :
          /\ LexemeAccepts(machine)[i].token = "TOKEN_IDENTIFIER"
          /\ LexemeAccepts(machine)[j].token = "TOKEN_STRING"
          /\ LexemeAccepts(machine)[k].token = "TOKEN_DEC_NUMBER"
          /\ \A n \in {i, j, k} :
                \E later \in (n + 1)..Len(machine.accepted) :
                    machine.accepted[later].lexeme #
                        LexemeAccepts(machine)[n].lexeme

\* The tree below node i, written out: an identifier as its name, a number
\* as #, a string in quotes, any other node in parentheses after its
\* subtype (its type when it has none), lists in brackets, a null pointer
\* as null.
RECURSIVE Show(_, _)
RECURSIVE ShowList(_, _)
ShowList(m, list) ==
    IF list = <<>> THEN ""
    ELSE " " \o Show(m, Head(list)) \o ShowList(m, Tail(list))

Show(m, i) ==
    LET s == m.heap[i]
        text(str) == IF str.valid THEN string_text(m, str) ELSE "null"
        node(name, fields) == "(" \o name \o ShowList(m, fields) \o ")"
        list(nodes) == "[" \o ShowList(m, nodes) \o " ]"
    IN  IF i = NULL THEN "null"
        ELSE CASE s.type = "AST_ID" -> text(s.name)
               [] s.type = "AST_NUMBER" -> "#"
               [] s.type = "AST_STRING" -> "'" \o text(s.value) \o "'"
               [] s.type = "AST_EMPTY" -> "(AST_EMPTY)"
               [] s.type = "AST_SEQUENCE" -> node("AST_SEQUENCE", s.exps)
               [] s.type = "AST_LOGICAL" /\ s.subtype = "AST_TERNARY" ->
                     node("AST_TERNARY", <<s.pred, s.conseq, s.alt>>)
               [] s.type \in {"AST_ASSIGNMENT", "AST_LOGICAL",
                              "AST_ARITHMETIC", "AST_RELATIONAL"} ->
                     node(s.subtype, <<s.lhs, s.rhs>>)
               [] s.type = "AST_UNARY" -> node(s.subtype, <<s.exp>>)
               [] s.type = "AST_INDEX" -> node("AST_INDEX", <<s.ref, s.index>>)
               [] s.type = "AST_MEMBER" ->
                     node("AST_MEMBER", <<s.obj, s.field>>)
               [] s.type = "AST_APPLICATION" ->
                     "(AST_APPLICATION " \o Show(m, s.ref) \o " " \o
                     list(s.args) \o " " \o list(s.kw_args) \o ")"
               [] s.type = "AST_KEYWORD_ARG" ->
                     node("AST_KEYWORD_ARG", <<s.id, s.exp>>)
               [] s.type = "AST_ARRAY" -> node("AST_ARRAY", s.elts)
               [] s.type = "AST_DICTIONARY" -> node("AST_DICTIONARY", s.map)
               [] s.type = "AST_KV" -> node("AST_KV", <<s.key, s.value>>)
               [] s.type = "AST_IF" ->
                     node("AST_IF", s.clauses \o <<s.alt>>)
               [] s.type = "AST_IF_CLAUSE" ->
                     node("AST_IF_CLAUSE", <<s.pred, s.conseq>>)
               [] s.type = "AST_FOREACH" ->
                     "(AST_FOREACH " \o list(s.ids) \o " " \o
                     Show(m, s.exp) \o " " \o Show(m, s.body) \o ")"
               [] OTHER -> "(" \o s.subtype \o ")"

\* parse has returned the tree that is written out as shown, no allocation
\* having failed.
Parsed(shown) ==
    /\ result.success
    /\ Show(machine, result.ast) = shown

\* C13: binary operators nest by precedence and chains associate to the
\* left.  For operators o1 and o2, a o1 b o2 c parses to (o1 a (o2 b c))
\* when o2 binds tighter than o1, and to (o2 (o1 a b) c) when o2 binds
\* looser than o1 or both are of one chaining level; or binds loosest, then
\* and, equality, relational, additive, multiplicative.
C13_PrecedenceAndLeftAssociation ==
    \A o1, o2 \in BinaryOperators :
        (Returned /\ ~machine.oom /\ source = Chain(o1, o2)) =>
            IF o2.level > o1.level
            THEN Parsed("(AST_SEQUENCE (" \o o1.sub \o " a (" \o o2.sub \o
                        " b c)))")
            ELSE IF o2.level < o1.level \/ o1.level \in ChainLevels
                 THEN Parsed("(AST_SEQUENCE (" \o o2.sub \o " (" \o o1.sub \o
                             " a b) c))")
                 ELSE TRUE

\* C13's case: a - b - c has been parsed.
C13_Witness ==
    /\ Returned
    /\ ~machine.oom
    /\ source = <<"a", " ", "-", " ", "b", " ", "-", " ", "c">>
    /\ Parsed("(AST_SEQUENCE (AST_SUB (AST_SUB a b) c))")

\* The tree of an operand, written out.
ShownOperand(x) ==
    CASE x = <<"a">> -> "a"
      [] x = <<"1">> -> "#"
      [] x = <<"b", " ", "+", " ", "c">> -> "(AST_ADD b c)"

ShownTernary(p, c, a) == "(AST_TERNARY " \o p \o " " \o c \o " " \o a \o ")"

\* parse has returned, no allocation having failed, for the source text.
ParsedSource(text) == Returned /\ ~machine.oom /\ source = text

\* C14: the ternary operator associates to the right, and conseq and alt
\* are full expressions.  For operands x, y: x ? y : y ? x : x parses to
\* the Ternary of x, y and the Ternary (y, x, x); x ? y ? x : y : y to the
\* Ternary of x, the Ternary (y, x, y) and y; and x ? b = y : c += x to the
\* Ternary of x and the two assignments.
C14_TernaryRightAssociation ==
    \A x, y \in Operands :
        LET X == ShownOperand(x)
            Y == ShownOperand(y)
        IN  /\ ParsedSource(TernaryText(x, y, TernaryText(y, x, x))) =>
                  Parsed("(AST_SEQUENCE " \o
                         ShownTernary(X, Y, ShownTernary(Y, X, X)) \o ")")
            /\ ParsedSource(TernaryText(x, TernaryText(y, x, y), y)) =>
                  Parsed("(AST_SEQUENCE " \o
                         ShownTernary(X, ShownTernary(Y, X, Y), Y) \o ")")
            /\ ParsedSource(TernaryText(x, <<"b", " ", "=", " ">> \o y,
                                        <<"c", " ", "+", "=", " ">> \o x)) =>
                  Parsed("(AST_SEQUENCE " \o
                         ShownTernary(X, "(AST_ASSIGN b " \o Y \o ")",
                                      "(AST_ADD_ASSIGN c " \o X \o ")") \o ")")

\* C14's case: a ? 1 : 1 ? a : a has been parsed.
C14_Witness ==
    /\ ParsedSource(TernaryText(<<"a">>, <<"1">>,
                                TernaryText(<<"1">>, <<"a">>, <<"a">>)))
    /\ Parsed("(AST_SEQUENCE (AST_TERNARY a # (AST_TERNARY # a a)))")

\* C15: assignment does not associate.  When a = b = c has been parsed, no
\* Assignment node of the tree returned has an Assignment node as its
\* right-hand side.
C15_AssignmentNotNested ==
    (ParsedSource(<<"a", " ", "=", " ", "b", " ", "=", " ", "c">>) /\
     result.success) =>
        \A i \in Reach(machine, result.ast) :
            machine.heap[i].type = "AST_ASSIGNMENT" =>
                machine.heap[machine.heap[i].rhs].type # "AST_ASSIGNMENT"

\* What parse returns for a = b = c: the right-hand side of an assignment
\* is an expression, and so may be an assignment.
C15_AssignmentNestsRight ==
    ParsedSource(<<"a", " ", "=", " ", "b", " ", "=", " ", "c">>) =>
        Parsed("(AST_SEQUENCE (AST_ASSIGN a (AST_ASSIGN b c)))")

\* Sources in which a suffix follows a primary that is not an identifier
\* token: a parenthesized identifier, and a parenthesized expression, a
\* literal, an array or a dictionary.
SuffixAfterParenthesizedId ==
    {<<"(","a",")",".","b">>, <<"(","a",")","[","0","]">>,
     <<"(","a",")","(","b",")">>}

SuffixAfterOtherPrimary ==
    {<<"[","1",",","2",",","3","]","[","0","]">>,
     <<"{","a",":","b","}",".","c">>,
     <<"'","s","'",".","f">>,
     <<"1","(","2",")">>,
     <<"(","a"," ","+"," ","b",")","(","c",")">>,
     <<"(","a"," ","+"," ","b",")",".","c">>,
     <<"(","1",")","[","0","]">>,
     <<"t","r","u","e",".","a">>}

\* The tree returned holds no Member, Application or Index node.
NoPostfixNode ==
    \A i \in Reach(machine, result.ast) :
        machine.heap[i].type \notin
            {"AST_MEMBER", "AST_APPLICATION", "AST_INDEX"}

\* C16: the postfix chain is attached only to a primary that was an
\* identifier token.  After any other primary, a parenthesized identifier
\* included, a following `.`, `(` or `[` is not folded into a Member,
\* Application or Index node.
C16_PostfixOnlyAfterIdentifierToken ==
    \A text \in SuffixAfterParenthesizedId \cup SuffixAfterOtherPrimary :
        (ParsedSource(text) /\ result.success) => NoPostfixNode

\* What holds: the chain is attached to a primary that is an Identifier
\* node, so not after a literal, an array, a dictionary or a parenthesized
\* expression that is no identifier; after (a) it is attached.
C16_PostfixOnlyAfterIdentifierNode ==
    /\ \A text \in SuffixAfterOtherPrimary :
          ParsedSource(text) => (result.success /\ NoPostfixNode)
    /\ ParsedSource(<<"(","a",")",".","b">>) =>
          Parsed("(AST_SEQUENCE (AST_MEMBER a b))")
    /\ ParsedSource(<<"(","a",")","[","0","]">>) =>
          Parsed("(AST_SEQUENCE (AST_INDEX a #))")
    /\ ParsedSource(<<"(","a",")","(","b",")">>) =>
          Parsed("(AST_SEQUENCE (AST_APPLICATION a [ b ] [ ]))")

\* The suffixes of a postfix chain, as written.
Suffixes == {<<".", "x">>, <<"(", "y", ")">>, <<"[", "0", "]">>}

\* The node that a suffix makes of the tree before it.
Folded(before, suffix) ==
    CASE suffix = <<".", "x">> -> "(AST_MEMBER " \o before \o " x)"
      [] suffix = <<"(", "y", ")">> ->
            "(AST_APPLICATION " \o before \o " [ y ] [ ])"
      [] suffix = <<"[", "0", "]">> -> "(AST_INDEX " \o before \o " #)"

\* C17: the suffixes that follow an identifier are folded from left to
\* right.  For suffixes s, t, u among .x, (y) and [0], the source o s t
\* parses to the node of t over the node of s over o, and o s t u (s, t, u
\* different) to the node of u over that; and every Application and Index
\* node of a tree that parse returns has a ref.
C17_SuffixesFoldLeft ==
    /\ \A s, t \in Suffixes :
          ParsedSource(<<"o">> \o s \o t) =>
              Parsed("(AST_SEQUENCE " \o Folded(Folded("o", s), t) \o ")")
    /\ \A s, t, u \in Suffixes :
          (Cardinality({s, t, u}) = 3 /\
           ParsedSource(<<"o">> \o s \o t \o u)) =>
              Parsed("(AST_SEQUENCE " \o
                     Folded(Folded(Folded("o", s), t), u) \o ")")
    /\ (Returned /\ result.success) =>
          \A i \in Reach(machine, result.ast) :
              machine.heap[i].type \in {"AST_APPLICATION", "AST_INDEX"} =>
                  machine.heap[i].ref # NULL

\* C17's case: o.x(y)[0] has been parsed.
C17_Witness ==
    /\ ParsedSource(<<"o", ".", "x", "(", "y", ")", "[", "0", "]">>)
    /\ Parsed("(AST_SEQUENCE (AST_INDEX (AST_APPLICATION (AST_MEMBER o x) [ y ] [ ]) #))")

\* parse has failed with the message text.
Failed(text) ==
    /\ ~result.success
    /\ result.error.valid
    /\ Message = text

\* What follows the `.` of a. in a source: literals, an array, a
\* dictionary and a parenthesized sum; a parenthesized identifier; and a
\* keyword.
NoFieldName ==
    {<<"1">>, <<"'", "s", "'">>, <<"t", "r", "u", "e">>, <<"[", "b", "]">>,
     <<"{", "b", ":", "c", "}">>, <<"(", "b", " ", "+", " ", "c", ")">>}

ParenthesizedFieldName == <<"(", "b", ")">>

KeywordFieldName == <<"i", "f">>

\* Every Member node of the tree returned has an Identifier node as field.
FieldsAreIdentifiers ==
    (Returned /\ result.success) =>
        \A i \in Reach(machine, result.ast) :
            machine.heap[i].type = "AST_MEMBER" =>
                /\ machine.heap[i].field # NULL
                /\ machine.heap[machine.heap[i].field].type = "AST_ID"

\* C18: the right side of `.` is a single identifier token.  When a literal,
\* a keyword, an array, a dictionary or a parenthesized expression follows
\* the `.`, parse fails with "field name must be plain id"; when nothing
\* follows, with "expected field name"; and every Member node of a tree
\* returned has an Identifier node as field.
C18_FieldIsIdentifierToken ==
    /\ \A x \in NoFieldName \cup {ParenthesizedFieldName, KeywordFieldName} :
          ParsedSource(<<"a", ".">> \o x) =>
              Failed("field name must be plain id")
    /\ ParsedSource(<<"a", ".">>) => Failed("expected field name")
    /\ FieldsAreIdentifiers

\* What holds: the right side of `.` is a primary that is an Identifier
\* node.  A parenthesized identifier is one, and a.(b) is the Member of a
\* and b; a keyword is no primary, and the message is that of nothing
\* following.
C18_FieldIsIdentifierNode ==
    /\ \A x \in NoFieldName :
          ParsedSource(<<"a", ".">> \o x) =>
              Failed("field name must be plain id")
    /\ ParsedSource(<<"a", ".">> \o ParenthesizedFieldName) =>
          Parsed("(AST_SEQUENCE (AST_MEMBER a b))")
    /\ ParsedSource(<<"a", ".">> \o KeywordFieldName) =>
          Failed("expected field name")
    /\ ParsedSource(<<"a", ".">>) => Failed("expected field name")
    /\ FieldsAreIdentifiers

\* The arguments of one kind of an argument list, written out in the order
\* of the source.
RECURSIVE ShownArguments(_, _, _)
ShownArguments(kinds, kind, n) ==
    LET names == <<"a", "b", "c", "d", "e">>
        keys == <<"k", "l", "m", "n", "o">>
        values == <<"v", "w", "x", "y", "z">>
        shown == IF kind = "positional" THEN " " \o names[n]
                 ELSE " (AST_KEYWORD_ARG " \o keys[n] \o " " \o values[n] \o ")"
    IN  IF n = 0 THEN ""
        ELSE ShownArguments(kinds, kind, n - 1) \o
             (IF kinds[n] = kind THEN shown ELSE "")

\* Sources whose first argument has a colon after something that is no
\* identifier.
NoKeywordName ==
    {<<"f", "(", "1", ":", "2", ")">>,
     <<"f", "(", "a", ".", "b", ":", "c", ")">>,
     <<"f", "(", "'", "s", "'", ":", "x", ")">>,
     <<"f", "(", "[", "a", "]", ":", "b", ")">>}

\* C19: after the first argument in keyword form every argument is in
\* keyword form.  An argument list with a positional argument after a
\* keyword argument fails with "application: expected keyword"; any other
\* parses to the Application whose args are the positional arguments and
\* whose kw_args are the keyword arguments, each in the order of the
\* source; a colon after something that is no identifier fails with
\* "application: expected kwarg name"; and the id of every keyword argument
\* of a tree returned is an Identifier node.
C19_KeywordsAfterPositionals ==
    /\ \A kinds \in Arguments :
          ParsedSource(ArgumentText(kinds)) =>
              IF \E i, j \in DOMAIN kinds :
                    i < j /\ kinds[i] = "keyword" /\ kinds[j] = "positional"
              THEN Failed("application: expected keyword")
              ELSE Parsed("(AST_SEQUENCE (AST_APPLICATION f [" \o
                          ShownArguments(kinds, "positional", Len(kinds)) \o
                          " ] [" \o
                          ShownArguments(kinds, "keyword", Len(kinds)) \o
                          " ]))")
    /\ \A text \in NoKeywordName :
          ParsedSource(text) => Failed("application: expected kwarg name")
    /\ (Returned /\ result.success) =>
          \A i \in Reach(machine, result.ast) :
              machine.heap[i].type = "AST_APPLICATION" =>
                  /\ \A j \in DOMAIN machine.heap[i].args :
                        machine.heap[machine.heap[i].args[j]].type #
                            "AST_KEYWORD_ARG"
                  /\ \A j \in DOMAIN machine.heap[i].kw_args :
                        LET kw == machine.heap[machine.heap[i].kw_args[j]]
                        IN  /\ kw.type = "AST_KEYWORD_ARG"
                            /\ kw.id # NULL
                            /\ machine.heap[kw.id].type = "AST_ID"

\* C19's cases: f(a, l:w, m:x) has been parsed, and f(k:v, b) has failed.
C19_Witness ==
    /\ ParsedSource(ArgumentText(<<"positional", "keyword", "keyword">>))
    /\ Parsed("(AST_SEQUENCE (AST_APPLICATION f [ a ] [ (AST_KEYWORD_ARG l w) (AST_KEYWORD_ARG m x) ]))")

C19_WitnessFailure ==
    /\ ParsedSource(ArgumentText(<<"keyword", "positional">>))
    /\ Failed("application: expected keyword")

\* C20: a sequence whose first statement is Empty is that Empty node, and
\* any other is the Sequence of the statements before the first that is
\* Empty.  The empty source and a source that begins with a token no
\* statement begins with parse to Empty; a b c parses to the Sequence of a,
\* b and c, and a b ) c to the Sequence of a and b; and every Sequence node
\* of a tree returned has a child and no Empty node among its children.
C20_SequenceEndsAtEmpty ==
    /\ ParsedSource(<<>>) => Parsed("(AST_EMPTY)")
    /\ ParsedSource(<<")">>) => Parsed("(AST_EMPTY)")
    /\ ParsedSource(<<"a">>) => Parsed("(AST_SEQUENCE a)")
    /\ ParsedSource(<<"a", " ", "b", " ", "c">>) =>
          Parsed("(AST_SEQUENCE a b c)")
    /\ ParsedSource(<<"a", " ", ")", " ", "b">>) => Parsed("(AST_SEQUENCE a)")
    /\ ParsedSource(<<"a", " ", "b", " ", ")", " ", "c">>) =>
          Parsed("(AST_SEQUENCE a b)")
    /\ (Returned /\ result.success) =>
          \A i \in Reach(machine, result.ast) :
              machine.heap[i].type = "AST_SEQUENCE" =>
                  /\ machine.heap[i].exps # <<>>
                  /\ \A j \in DOMAIN machine.heap[i].exps :
                        machine.heap[machine.heap[i].exps[j]].type #
                            "AST_EMPTY"

\* C20's case: a b ) c has been parsed, the Empty statement at `)` ending
\* the sequence.
C20_Witness ==
    /\ ParsedSource(<<"a", " ", "b", " ", ")", " ", "c">>)
    /\ Parsed("(AST_SEQUENCE a b)")

\* The source given as one string.
ParsedText(text) == Returned /\ ~machine.oom /\ c_str(source) = text

\* The number of accepted tokens that are among tokens, and the nodes of
\* the tree returned.
Accepted(tokens) ==
    Len(SelectSeq(machine.accepted, LAMBDA a : a.token \in tokens))

Tree == Reach(machine, result.ast)

(***************************************************************************)
(* Statements, literals and messages.                                      *)
(***************************************************************************)
\* C21: an if statement yields an If node with one clause for each if and
\* elif, in the order of the source, each with a predicate that is not
\* Empty and a body, and with an alt exactly when an else was given; a
\* missing predicate fails with "if: expected predicate" and a missing
\* endif with "if: expected endif", in a nested if statement too.
C21_IfClauses ==
    /\ (Returned /\ result.success) =>
          /\ Cardinality({i \in Tree : machine.heap[i].type = "AST_IF"}) =
                Accepted({"TOKEN_IF"})
          /\ Cardinality({i \in Tree :
                              machine.heap[i].type = "AST_IF_CLAUSE"}) =
                Accepted({"TOKEN_IF", "TOKEN_ELIF"})
          /\ Cardinality({i \in Tree : /\ machine.heap[i].type = "AST_IF"
                                       /\ machine.heap[i].alt # NULL}) =
                Accepted({"TOKEN_ELSE"})
          /\ \A i \in Tree :
                machine.heap[i].type = "AST_IF_CLAUSE" =>
                    /\ machine.heap[i].pred # NULL
                    /\ machine.heap[machine.heap[i].pred].type # "AST_EMPTY"
                    /\ machine.heap[i].conseq # NULL
    /\ ParsedText("if a endif") =>
          Parsed("(AST_SEQUENCE (AST_IF (AST_IF_CLAUSE a (AST_EMPTY)) null))")
    /\ ParsedText("if a else endif") =>
          Parsed("(AST_SEQUENCE (AST_IF (AST_IF_CLAUSE a (AST_EMPTY)) (AST_EMPTY)))")
    /\ ParsedText("if a b elif c d elif e f else g endif") =>
          Parsed("(AST_SEQUENCE (AST_IF (AST_IF_CLAUSE a (AST_SEQUENCE b)) (AST_IF_CLAUSE c (AST_SEQUENCE d)) (AST_IF_CLAUSE e (AST_SEQUENCE f)) (AST_SEQUENCE g)))")
    /\ ParsedText("if a 1 elif b endif") =>
          Parsed("(AST_SEQUENCE (AST_IF (AST_IF_CLAUSE a (AST_SEQUENCE #)) (AST_IF_CLAUSE b (AST_EMPTY)) null))")
    /\ ParsedText("if a if b endif endif") =>
          Parsed("(AST_SEQUENCE (AST_IF (AST_IF_CLAUSE a (AST_SEQUENCE (AST_IF (AST_IF_CLAUSE b (AST_EMPTY)) null))) null))")
    /\ \A text \in {"if", "if endif", "if a elif", "if a b elif",
                     "if a if endif endif"} :
          ParsedText(text) => Failed("if: expected predicate")
    /\ \A text \in {"if true", "if a b else c", "if a if b endif"} :
          ParsedText(text) => Failed("if: expected endif")

\* C21's case: an if statement with two elif clauses and an else has been
\* parsed.
C21_Witness ==
    /\ ParsedText("if a b elif c d elif e f else g endif")
    /\ result.success
    /\ Accepted({"TOKEN_IF", "TOKEN_ELIF"}) = 3
    /\ Accepted({"TOKEN_ELSE"}) = 1

\* C22: the count of an Array node is the number of its elements, for []
\* and after a trailing comma too; elements and key/value pairs are kept in
\* the order of the source; one trailing comma is accepted, and an empty
\* element fails with "array: expected expression", an empty pair with
\* "dictionary: expected key".
C22_ArrayCountAndOrder ==
    /\ (Returned /\ result.success) =>
          \A i \in Tree :
              machine.heap[i].type = "AST_ARRAY" =>
                  machine.heap[i].count = Len(machine.heap[i].elts)
    /\ ParsedText("[]") => Parsed("(AST_SEQUENCE (AST_ARRAY))")
    /\ ParsedText("[1,]") => Parsed("(AST_SEQUENCE (AST_ARRAY #))")
    /\ ParsedText("[a, b, c,]") => Parsed("(AST_SEQUENCE (AST_ARRAY a b c))")
    /\ ParsedText("[[a],{}]") =>
          Parsed("(AST_SEQUENCE (AST_ARRAY (AST_ARRAY a) (AST_DICTIONARY)))")
    /\ ParsedText("{}") => Parsed("(AST_SEQUENCE (AST_DICTIONARY))")
    /\ ParsedText("{a:b,c:d}") =>
          Parsed("(AST_SEQUENCE (AST_DICTIONARY (AST_KV a b) (AST_KV c d)))")
    /\ ParsedText("{a:b, c:d,}") =>
          Parsed("(AST_SEQUENCE (AST_DICTIONARY (AST_KV a b) (AST_KV c d)))")
    /\ \A text \in {"[,]", "[1,,]", "[a,,b]"} :
          ParsedText(text) => Failed("array: expected expression")
    /\ \A text \in {"{,}", "{a:b,,}"} :
          ParsedText(text) => Failed("dictionary: expected key")

\* C22's case: an array of three elements and a trailing comma has been
\* parsed.
C22_Witness ==
    /\ ParsedText("[a, b, c,]")
    /\ result.success
    /\ \E i \in Tree : /\ machine.heap[i].type = "AST_ARRAY"
                       /\ machine.heap[i].count = 3

\* The name of the production that accepts the binary operators of a level.
RuleName(level) ==
    CASE level = 1 -> "logical or"
      [] level = 2 -> "logical and"
      [] level = 3 -> "equality"
      [] level = 4 -> "relational"
      [] level = 5 -> "additive"
      [] level = 6 -> "multiplicative"

\* C23: an operator or an opening keyword with the end of the input where
\* an operand is required fails with "<rule>: expected <what>", <rule> the
\* name of the production that accepted the operator; an empty parenthesis
\* as operand fails with "invalid expression" in every production.
C23_RuleNamesInMessages ==
    /\ \A o \in BinaryOperators :
          ParsedSource(<<"a", " ">> \o o.text) =>
              Failed(RuleName(o.level) \o ": expected expression")
    /\ \A text \in {"-", "+", "not"} :
          ParsedText(text) => Failed("unary: expected expression")
    /\ \A text \in {"a =", "a +=", "a -=", "a *=", "a /=", "a %="} :
          ParsedText(text) => Failed("assignment: expected expression")
    /\ ParsedText("a ?") => Failed("ternary: expected true clause")
    /\ ParsedText("a ? b :") => Failed("ternary: expected false clause")
    /\ ParsedText("if") => Failed("if: expected predicate")
    /\ ParsedText("foreach") => Failed("foreach: expected identifier")
    /\ ParsedText("foreach x") => Failed("foreach: expected colon")
    /\ ParsedText("foreach x :") => Failed("foreach: expected expression")
    /\ \A text \in {"a * ()", "a + ()", "a < ()", "a == ()", "a and ()",
                     "a or ()", "- ()", "not ()", "a = ()", "a ? ()",
                     "a ? b : ()", "if ()", "if true () endif",
                     "foreach x : ()", "[()", "{()", "{'a':()", "f(()",
                     "f(k:()", "a[()", "a b = ()"} :
          ParsedText(text) => Failed("invalid expression")

\* C23's cases: a not in, with nothing after it, and a and () have failed.
C23_Witness ==
    /\ ParsedText("a not in")
    /\ Failed("relational: expected expression")

C23_WitnessParenthesis ==
    /\ ParsedText("a and ()")
    /\ Failed("invalid expression")

\* The value of a digit, of a run of at most seven digits in a base, and of
\* a number written in decimal digits, as integers.
DigitValue(c) ==
    CASE c \in {"a", "A"} -> 10
      [] c \in {"b", "B"} -> 11
      [] c \in {"c", "C"} -> 12
      [] c \in {"d", "D"} -> 13
      [] c \in {"e", "E"} -> 14
      [] c \in {"f", "F"} -> 15
      [] OTHER -> CHOOSE d \in 0..9 : ToString(d) = c

RECURSIVE ValueIn(_, _)
ValueIn(digits, base) ==
    IF digits = <<>> THEN 0
    ELSE ValueIn(SubSeq(digits, 1, Len(digits) - 1), base) * base +
         DigitValue(digits[Len(digits)])

RECURSIVE Decimal(_)
Decimal(v) ==
    IF v = <<>> THEN 0
    ELSE Decimal(SubSeq(v, 1, Len(v) - 1)) * 10 + v[Len(v)]

\* The base of a number token.
BaseOf(tok) ==
    CASE tok = "TOKEN_BIN_NUMBER" -> 2
      [] tok = "TOKEN_OCT_NUMBER" -> 8
      [] tok = "TOKEN_HEX_NUMBER" -> 16
      [] OTHER -> 10

\* parse has returned the Sequence of the Number nodes of the values.
ParsedNumbers(values) ==
    /\ result.success
    /\ machine.heap[result.ast].type = "AST_SEQUENCE"
    /\ Len(machine.heap[result.ast].exps) = Len(values)
    /\ \A i \in DOMAIN values :
          LET n == machine.heap[machine.heap[result.ast].exps[i]]
          IN  n.type = "AST_NUMBER" /\ n.value = values[i]

\* C24: the value of a Number node is the value of the literal's digits in
\* the base of its token: 2 after 0b, 8 after 0o, 16 after 0x, and 10
\* otherwise, leading zeros included.  Stated for every number token of at
\* most seven digits that was accepted, and for literals up to the largest
\* value of 64 bits.
C24_NumberValue ==
    /\ ~machine.oom =>
          \A i \in 1..Len(LexemeNodes(machine)) :
              LET a == LexemeAccepts(machine)[i]
                  n == LexemeNodes(machine)[i]
              IN  (n.type = "AST_NUMBER" /\ Len(a.lexeme) <= 7) =>
                      Decimal(n.value) = ValueIn(a.lexeme, BaseOf(a.token))
    /\ ParsedText("0x10 0o10 0b11 010") =>
          ParsedNumbers(<<<<1, 6>>, <<8>>, <<3>>, <<1, 0>>>>)
    /\ ParsedText("0") => ParsedNumbers(<<<<>>>>)
    /\ ParsedText("00") => ParsedNumbers(<<<<>>>>)
    /\ ParsedText("007") => ParsedNumbers(<<<<7>>>>)
    /\ ParsedText("0xff") => ParsedNumbers(<<<<2, 5, 5>>>>)
    /\ ParsedText("0xAbC") => ParsedNumbers(<<<<2, 7, 4, 8>>>>)
    /\ ParsedText("0o777") => ParsedNumbers(<<<<5, 1, 1>>>>)
    /\ ParsedText("0b101") => ParsedNumbers(<<<<5>>>>)
    /\ ParsedText("1234567890") =>
          ParsedNumbers(<<<<1, 2, 3, 4, 5, 6, 7, 8, 9, 0>>>>)
    /\ ParsedText("9223372036854775807") => ParsedNumbers(<<LLONG_MAX>>)
    /\ ParsedText("0x7fffffffffffffff") => ParsedNumbers(<<LLONG_MAX>>)

\* C24's case: literals of the four bases have been parsed.
C24_Witness ==
    /\ ParsedText("0x10 0o10 0b11 010")
    /\ ParsedNumbers(<<<<1, 6>>, <<8>>, <<3>>, <<1, 0>>>>)

\* C25: for every source, parse ends with a result, a success or a failure:
\* as long as no allocation has failed, a call of parse is either still
\* running or has returned its result.
C25_ParseReturns == ~machine.oom => (Running \/ Returned)

\* What holds: a call of parse that is no longer running has returned a
\* result or has ended with the signal that ends the process.
C25_ParseEnds == Running \/ Returned \/ machine.signal # "NONE"

\* A call of parse that has ended without a result though no allocation
\* failed: the tokenizer has read outside the memory of the process.
C25_Fault ==
    /\ ~Returned
    /\ ~machine.oom
    /\ machine.signal = "SIGSEGV"

\* C27: when parse returns success the whole input has been consumed: the
\* lookahead it holds is the end of the input.
C27_SuccessAtEnd ==
    (Returned /\ result.success) =>
        (machine.p.ready /\ machine.p.token = "TOKEN_END")

\* A statement followed by tokens that belong to no statement, returned as a
\* successful parse of the statement alone.
C27_TrailingIgnored ==
    /\ ParsedText("a )")
    /\ Parsed("(AST_SEQUENCE a)")
    /\ machine.p.token = "TOKEN_R_PAREN"

\* The operands of node i of m: the nodes its operator is applied to.
OperandsOf(m, i) ==
    LET n == m.heap[i]
    IN  IF n.type = "AST_UNARY" THEN {n.exp}
        ELSE IF n.type = "AST_LOGICAL" /\ n.subtype = "AST_TERNARY"
             THEN {n.pred, n.conseq, n.alt}
        ELSE IF n.type \in {"AST_ARITHMETIC", "AST_RELATIONAL", "AST_LOGICAL",
                            "AST_ASSIGNMENT"}
             THEN {n.lhs, n.rhs}
        ELSE {}

EmptyOperand(m, i) ==
    \E o \in OperandsOf(m, i) : o # NULL /\ m.heap[o].type = "AST_EMPTY"

\* C28: in a tree returned by a successful parse no operand of a Unary,
\* Arithmetic, Relational, Logical or Assignment node is an Empty node.
C28_NoEmptyOperand ==
    (Returned /\ result.success) =>
        \A i \in Tree : ~EmptyOperand(machine, i)

\* What holds: the right operands, the operand of a Unary node and the
\* clauses of a ternary are never Empty; only a left operand or the
\* predicate of a ternary can be.
C28_NoEmptyRightOperand ==
    (Returned /\ result.success) =>
        \A i \in Tree :
            LET n == machine.heap[i]
                empty(o) == o # NULL /\ machine.heap[o].type = "AST_EMPTY"
            IN  /\ n.type = "AST_UNARY" => ~empty(n.exp)
                /\ (n.type = "AST_LOGICAL" /\ n.subtype = "AST_TERNARY") =>
                       (~empty(n.conseq) /\ ~empty(n.alt))
                /\ (/\ n.type \in {"AST_ARITHMETIC", "AST_RELATIONAL",
                                   "AST_LOGICAL", "AST_ASSIGNMENT"}
                    /\ ~(n.type = "AST_LOGICAL" /\ n.subtype = "AST_TERNARY")) =>
                       ~empty(n.rhs)

\* A source starting with `*`, returned as a product with an Empty left
\* operand.
C28_MissingLeftOperand ==
    /\ ParsedText("* a")
    /\ Parsed("(AST_SEQUENCE (AST_MUL (AST_EMPTY) a))")

(***************************************************************************)
(* Properties of the tokenizer, stated over the source text: start is the  *)
(* cursor before the last lex call, token its result, l the tokenizer      *)
(* after it.                                                               *)
(***************************************************************************)
Letters == Lower \cup Upper \cup {"_"}
IdentChars == Letters \cup Digits

\* source[p+1..q], the characters between cursor positions p and q.
Text(p, q) == SubSeq(source, p + 1, q)

\* The cursor position after the longest run of characters of S that
\* starts at cursor position p.
RunEnd(p, S) ==
    CHOOSE q \in p..Len(source) :
        /\ \A k \in (p + 1)..q : source[k] \in S
        /\ q = Len(source) \/ source[q + 1] \notin S

\* Cursor position q is followed by end of input, whitespace or punctuation.
AtBoundary(q) == q = Len(source) \/ source[q + 1] \in Spaces \cup PunctChars

KeywordTokens == {keywords[i].token : i \in 1..Len(keywords)}
Spelling(tok) ==
    keywords[CHOOSE i \in 1..Len(keywords) : keywords[i].token = tok].name

\* A lex call has returned; the tokenizer's buffer was allocated, no growth
\* of it has failed, and the call started on a character of the input.
Lexed ==
    /\ token # "NONE"
    /\ ~l.error
    /\ ~l.lexeme_null
    /\ start < Len(source)

\* C5: when the token starts with a letter or `_`, lex returns a keyword
\* token only if the characters it consumed are exactly that keyword's
\* spelling and the next character is end of input, whitespace or
\* punctuation; in every other case it returns TOKEN_IDENTIFIER whose
\* lexeme is the maximal run of letters, digits and `_` from the token's
\* start.
C5_KeywordOnlyWhenExact ==
    (Lexed /\ source[start + 1] \in Letters) =>
        IF token \in KeywordTokens
        THEN /\ Text(start, l.input_pos) = Spelling(token)
             /\ AtBoundary(l.input_pos)
        ELSE /\ token = "TOKEN_IDENTIFIER"
             /\ lexeme_text(l) = Text(start, RunEnd(start, IdentChars))

\* C6: for each keyword k, the input k alone lexes as k's keyword token
\* with lexeme k, and the input k immediately followed by a letter, digit
\* or `_` lexes as one TOKEN_IDENTIFIER whose lexeme is the whole run.
C6_KeywordAloneOrIdentifier ==
    \A i \in 1..Len(keywords) :
        LET k == keywords[i].name
            n == Len(k)
            q == RunEnd(0, IdentChars)
        IN  (Lexed /\ start = 0 /\ Len(source) >= n /\ Text(0, n) = k) =>
                /\ Len(source) = n =>
                      /\ token = keywords[i].token
                      /\ lexeme_text(l) = k
                      /\ l.input_pos = n
                /\ (Len(source) > n /\ source[n + 1] \in IdentChars) =>
                      /\ token = "TOKEN_IDENTIFIER"
                      /\ lexeme_text(l) = Text(0, q)
                      /\ l.input_pos = q

\* C6's case: a keyword followed by so many identifier characters that the
\* lexeme buffer had to grow has been lexed as one identifier.
C6_Witness ==
    /\ Lexed /\ start = 0
    /\ \E i \in 1..Len(keywords) :
          /\ Len(source) > Len(keywords[i].name)
          /\ Text(0, Len(keywords[i].name)) = keywords[i].name
          /\ source[Len(keywords[i].name) + 1] \in IdentChars
          /\ token = "TOKEN_IDENTIFIER"
          /\ l.input_pos > LexemeMax0

BaseDigits(m) ==
    CASE m = "b" -> {"0", "1"}
      [] m = "o" -> {"0", "1", "2", "3", "4", "5", "6", "7"}
      [] m = "x" -> Digits \cup {"a", "b", "c", "d", "e", "f"}
                           \cup {"A", "B", "C", "D", "E", "F"}
      [] OTHER   -> Digits

BaseToken(m) ==
    CASE m = "b" -> "TOKEN_BIN_NUMBER"
      [] m = "o" -> "TOKEN_OCT_NUMBER"
      [] m = "x" -> "TOKEN_HEX_NUMBER"
      [] OTHER   -> "TOKEN_DEC_NUMBER"

\* The base marker of the number that starts at cursor position p: the
\* letter after a leading 0, or "d" when there is none.
Marker(p) ==
    IF source[p + 1] = "0" /\ p + 2 <= Len(source)
                           /\ source[p + 2] \in {"b", "o", "x"}
    THEN source[p + 2]
    ELSE "d"

\* C7: when the token starts with a digit, lex returns a number token iff
\* a base marker, when present, is followed by at least one digit of that
\* base and the digit run is followed by end of input, whitespace or
\* punctuation; otherwise it returns TOKEN_ERROR.  The token kind matches
\* the base and the lexeme is the digit run: without the 0 and the marker
\* for a marked number, with every digit for a decimal one.
C7_NumberIffWellFormed ==
    (Lexed /\ source[start + 1] \in Digits) =>
        LET m  == Marker(start)
            ds == IF m = "d" THEN start ELSE start + 2
            q  == RunEnd(ds, BaseDigits(m))
        IN  IF (m # "d" => q > ds) /\ AtBoundary(q)
            THEN /\ token = BaseToken(m)
                 /\ lexeme_text(l) = Text(ds, q)
                 /\ l.input_pos = q
            ELSE token = "TOKEN_ERROR"

\* C7's case: a hexadecimal number has been lexed, its marker stripped.
C7_Witness ==
    /\ Lexed /\ source = <<"0", "x", "f">>
    /\ token = "TOKEN_HEX_NUMBER"
    /\ lexeme_text(l) = <<"f">>

Quote == "'"

\* Three quotes follow cursor position p.
IsTriple(p) ==
    p + 3 <= Len(source) /\ Text(p, p + 3) = <<Quote, Quote, Quote>>

\* C8: a terminated single-quoted string yields TOKEN_STRING with the
\* characters between the opening quote and the next quote; a terminated
\* triple-quoted string yields TOKEN_MULTILINE_STRING with the characters
\* between the opening three quotes and the first later run of three
\* quotes, runs of one or two quotes kept.
C8_StringContent ==
    (Lexed /\ source[start + 1] = Quote) =>
        IF IsTriple(start)
        THEN \A r \in (start + 3)..(Len(source) - 3) :
                (IsTriple(r) /\ \A r2 \in (start + 3)..(r - 1) : ~IsTriple(r2)) =>
                    /\ token = "TOKEN_MULTILINE_STRING"
                    /\ lexeme_text(l) = Text(start + 3, r)
                    /\ l.input_pos = r + 3
        ELSE \A q \in (start + 2)..Len(source) :
                (source[q] = Quote /\ \A k \in (start + 2)..(q - 1) : source[k] # Quote) =>
                    /\ token = "TOKEN_STRING"
                    /\ lexeme_text(l) = Text(start + 1, q - 1)
                    /\ l.input_pos = q

\* C8's case: a triple-quoted string whose content holds a quote has been
\* lexed.
C8_Witness ==
    /\ Lexed /\ start = 0 /\ IsTriple(0)
    /\ token = "TOKEN_MULTILINE_STRING"
    /\ Quote \in {lexeme_text(l)[k] : k \in 1..Len(lexeme_text(l))}

\* The string that starts at cursor position p has no terminator.
Unterminated(p) ==
    IF IsTriple(p)
    THEN \A r \in (p + 3)..(Len(source) - 3) : ~IsTriple(r)
    ELSE \A k \in (p + 2)..Len(source) : source[k] # Quote

\* C9: for a single-quoted string with no later quote and for a
\* triple-quoted string with no later run of three quotes, lex returns
\* TOKEN_ERROR.
C9_UnterminatedIsError ==
    (Lexed /\ source[start + 1] = Quote /\ Unterminated(start)) =>
        token = "TOKEN_ERROR"

\* C10: once a growth of the lexeme buffer has failed, every lex call
\* returns TOKEN_ERROR until lexer_init is called again.
C10_ErrorIsSticky ==
    [][(l.error /\ token' # "NONE") => token' = "TOKEN_ERROR"]_vars

\* C10, for the calls that return: after a growth of the lexeme buffer has
\* failed, a lex call that returns returns TOKEN_ERROR.
C10_ReturnedIsError ==
    [][(l.error /\ token' \notin {"NONE", "SIGSEGV"}) => token' = "TOKEN_ERROR"]_vars

\* C26: in every state of the tokenizer, after any lex calls on any input,
\* the cursor is at most at the end of the input: input_pos <= input_len.
C26_CursorWithinInput == l.input_pos <= l.input_len

\* What holds of the cursor: it leaves the input only in a source that
\* holds a triple-quoted string that is not ended.
C26_OverRead ==
    \E p \in 0..(Len(source) - 3) : IsTriple(p) /\ Unterminated(p)

C26_CursorWithinInputElsewhere ==
    (l.input_pos > l.input_len) => C26_OverRead

\* C29: during the keyword scan the index j used to read keywords[i].name
\* never exceeds the length of the keyword of row i, also after j is carried
\* over from a `prefix` row to the next row: no read behind the terminating
\* NUL of a keyword occurs.
C29_KeywordIndexWithinName == ~l.kw_over

\* What holds: a read behind the end of a keyword occurs only in a source
\* that holds `endfor`, the part of endforeach that is longer than endif.
C29_ReadsBehindEndif ==
    l.kw_over =>
        \E p \in 0..(Len(source) - 6) :
            Text(p, p + 6) = <<"e","n","d","f","o","r">>

\* The spellings of the keywords.
Spellings == {keywords[i].name : i \in 1..Len(keywords)}

\* C30: lex never returns TOKEN_IDENTIFIER with a lexeme equal to the
\* spelling of a keyword: a keyword followed by a character that is neither
\* a letter, a digit nor `_` is lexed as that keyword.
C30_KeywordNeverIdentifier ==
    (Lexed /\ token = "TOKEN_IDENTIFIER") => lexeme_text(l) \notin Spellings

\* What holds: an identifier spelled like a keyword is returned only when
\* the character after it is none of end of input, whitespace and
\* punctuation, or when characters before it were consumed into the token.
C30_KeywordBeforeBoundary ==
    (/\ Lexed
     /\ token = "TOKEN_IDENTIFIER"
     /\ lexeme_text(l) \in Spellings
     /\ Text(start, l.input_pos) = lexeme_text(l)) => ~AtBoundary(l.input_pos)

\* The keyword if before a comment, returned as an identifier.
C30_KeywordAsIdentifier ==
    /\ source = <<"i","f","#">>
    /\ Lexed
    /\ start = 0
    /\ token = "TOKEN_IDENTIFIER"
    /\ lexeme_text(l) = <<"i","f">>

====
